---- MODULE Spec2Model ----
(***************************************************************************)
(* Dense linear algebra under three execution strategies (sequential,      *)
(* OpenMP, one forked worker per unit of work) and the comparison          *)
(* harnesses that run the three and keep the fastest result.               *)
(*                                                                         *)
(* A C double is modelled as a rational [n, d] in lowest terms; the        *)
(* elimination of the determinant functions rounds its results to          *)
(* MantissaBits significant bits.  NULL is the record [null |-> TRUE].     *)
(* Indices are 0-based as in the source.                                   *)
(***************************************************************************)
EXTENDS Integers, Sequences, FiniteSets, TLC

VARIABLES
    entry,      \* the public function the client called
    col,        \* the MatrixCollection of the client (create_collection)
    operation,  \* run_operation_comparison: "Addition", "Subtraction" or "Multiplication"
    m1, m2,     \* the operands (m2 is used by the two-operand functions only)
    max_iter,   \* run_eigen_comparison: iteration cap
    tol,        \* run_eigen_comparison: convergence tolerance
    metrics,    \* PerformanceMetrics owned by the caller
    hpc,        \* position of the harness
    spc,        \* position inside the strategy that is running
    res,        \* what each strategy returned: res.single, res.openmp, res.multiproc
    ret,        \* what the called function returned to the client
    out_det,    \* the client's double written through out_det
    wk,         \* locals of the running strategy (result under construction, workspace, ...)
    pipes,      \* per unit of work: which ends of its pipe the parent holds open
    procs,      \* per unit of work: the state of the forked worker
    chan,       \* per unit of work: the doubles written into its pipe and not yet read
    effects,    \* per strategy: how many allocations, pipes, forks, computed cells it made
    freed       \* the strategies whose result the harness has freed

vars == <<entry, col, operation, m1, m2, max_iter, tol, metrics, hpc, spc, res, ret, out_det,
          wk, pipes, procs, chan, effects, freed>>

-----------------------------------------------------------------------------
(* Bounds of the model *)

\* Elapsed times are drawn from 0..MaxTime (clock ticks).
MaxTime == 2

\* Largest iteration cap a client passes to the eigen functions.
MaxIter == 2

-----------------------------------------------------------------------------
(* double arithmetic *)

Abs(x) == IF x < 0 THEN -x ELSE x

RECURSIVE GCD(_, _)
GCD(a, b) == IF b = 0 THEN a ELSE GCD(b, a % b)

\* the double n/d, in lowest terms with a positive denominator
\* (0/0 stays 0/0, as a quotient that is not a number stays one)
RatOf[n \in Int, d \in Int] ==
    LET s == IF d < 0 THEN -1 ELSE 1
        g == IF n = 0 /\ d = 0 THEN 1 ELSE GCD(Abs(n), Abs(d))
    IN  [n |-> (s * n) \div g, d |-> (s * d) \div g]

Rat(n, d) == RatOf[n, d]

D(k) == [n |-> k, d |-> 1]

DAdd(x, y) == Rat(x.n * y.d + y.n * x.d, x.d * y.d)
DSub(x, y) == Rat(x.n * y.d - y.n * x.d, x.d * y.d)
DMul(x, y) == Rat(x.n * y.n, x.d * y.d)
DDiv(x, y) == Rat(x.n * y.d, x.d * y.n)
DNeg(x)    == [n |-> -x.n, d |-> x.d]
fabs(x)    == [n |-> Abs(x.n), d |-> x.d]
DLt(x, y)  == x.n * y.d < y.n * x.d

\* The significand of a double holds 53 bits; the quotients, products and
\* differences of the elimination are rounded to MantissaBits bits instead, to
\* nearest and to even on a tie, with no limit on the exponent. The sums and
\* products of add / subtract / multiply on the small integers of the inputs
\* need no rounding, and the QR kernels are followed in exact arithmetic.
MantissaBits == 11

RECURSIVE Pow2(_)
Pow2(e) == IF e = 0 THEN 1 ELSE 2 * Pow2(e - 1)

\* scale a / d by powers of two until 2^(MantissaBits-1) <= a / d < 2^MantissaBits;
\* the value was (a / d) * 2^e all along
RECURSIVE Normalize(_, _, _)
Normalize(a, d, e) ==
    IF a < d * Pow2(MantissaBits - 1) THEN Normalize(2 * a, d, e - 1)
    ELSE IF a >= d * Pow2(MantissaBits) THEN Normalize(a, 2 * d, e + 1)
    ELSE [a |-> a, d |-> d, e |-> e]

\* the significand nz.a / nz.d rounded to an integer, to nearest and to even
\* on a tie, with the sign and the exponent put back
RoundOf[nz \in [a : Int, d : Int, e : Int], negative \in BOOLEAN] ==
    LET q    == nz.a \div nz.d
        r    == nz.a % nz.d
        m    == IF 2 * r > nz.d \/ (2 * r = nz.d /\ q % 2 = 1) THEN q + 1 ELSE q
        sm   == IF negative THEN -m ELSE m
    IN  IF nz.e >= 0 THEN Rat(sm * Pow2(nz.e), 1) ELSE Rat(sm, Pow2(-nz.e))

FlOf[x \in [n : Int, d : Int]] ==
    IF x.n = 0 \/ x.d = 0 THEN x
    ELSE RoundOf[Normalize(Abs(x.n), x.d, 0), x.n < 0]

\* the double nearest to x
Fl(x) == FlOf[x]

\* x - y, x * y and x / y as the machine computes them
FSub(x, y) == Fl(DSub(x, y))
FMul(x, y) == Fl(DMul(x, y))
FDiv(x, y) == Fl(DDiv(x, y))

-----------------------------------------------------------------------------
(* Matrix, and the values a C pointer or an int return can take *)

NULL == [null |-> TRUE]
PENDING == [pending |-> TRUE]
IntRet(v) == [int |-> v]

Cells(rows, cols) == (0..(rows - 1)) \X (0..(cols - 1))

\* create_matrix: calloc'ed, so every cell is 0.0
create_matrix(name, rows, cols) ==
    [name |-> name, rows |-> rows, cols |-> cols,
     data |-> [i \in 0..(rows - 1) |-> [j \in 0..(cols - 1) |-> D(0)]]]

SetCell(m, i, j, v) == [m EXCEPT !.data[i][j] = v]

\* what an uninitialised double may hold when it is read
Garbage == {D(0), D(77)}

-----------------------------------------------------------------------------
(* Inputs *)

Times == 0..MaxTime

Shapes == {<<1, 1>>, <<1, 2>>, <<2, 1>>}

\* the stored matrix "A" of a given shape: entries 1, 2, 3, ... row by row
OperandA(sh) ==
    [name |-> "A", rows |-> sh[1], cols |-> sh[2],
     data |-> [i \in 0..(sh[1] - 1) |-> [j \in 0..(sh[2] - 1) |-> D(i * sh[2] + j + 1)]]]

\* the stored matrix "B" of a given shape: entries 10, 7, ... row by row
OperandB(sh) ==
    [name |-> "B", rows |-> sh[1], cols |-> sh[2],
     data |-> [i \in 0..(sh[1] - 1) |-> [j \in 0..(sh[2] - 1) |-> D(10 - 3 * (i * sh[2] + j))]]]

ArithOps == {"Addition", "Subtraction", "Multiplication"}

\* the stored matrix "M" with the given rows of integer entries
FromRows(rws) ==
    [name |-> "M", rows |-> Len(rws), cols |-> Len(rws[1]),
     data |-> [i \in 0..(Len(rws) - 1) |-> [j \in 0..(Len(rws[1]) - 1) |-> D(rws[i + 1][j + 1])]]]

\* operands of the determinant harness: regular and singular, with and without
\* row swaps, identities, matrices with a row of zeros, and one that is not square
DetInputs ==
    { FromRows(<< <<5>> >>),
      FromRows(<< <<0>> >>),
      FromRows(<< <<1, 2>>, <<3, 4>> >>),
      FromRows(<< <<2, 1>>, <<4, 2>> >>),
      FromRows(<< <<0, 1>>, <<0, 2>> >>),
      FromRows(<< <<0, 1>>, <<2, 3>> >>),
      FromRows(<< <<-3, -3>>, <<-3, -2>> >>),
      FromRows(<< <<1>> >>),
      FromRows(<< <<1, 0>>, <<0, 1>> >>),
      FromRows(<< <<1, 0, 0>>, <<0, 1, 0>>, <<0, 0, 1>> >>),
      FromRows(<< <<2, 1>>, <<0, 0>> >>),
      FromRows(<< <<0, 0>>, <<1, 2>> >>),
      FromRows(<< <<2, 1, 1>>, <<4, 3, 3>>, <<8, 7, 9>> >>),
      FromRows(<< <<1, 2, 3>>, <<2, 4, 7>>, <<3, 6, 1>> >>),
      FromRows(<< <<1, 2>> >>) }

\* operands of the eigen harness: already diagonal, upper triangular, cycling
\* for ever, cycling with a sub-diagonal entry that alternates between 2 and 1,
\* breaking down in the second Gram-Schmidt column, and not square
EigenInputs ==
    { FromRows(<< <<3>> >>),
      FromRows(<< <<2, 0>>, <<0, 3>> >>),
      FromRows(<< <<2, 1>>, <<0, 1>> >>),
      FromRows(<< <<3, 4>>, <<4, -3>> >>),
      FromRows(<< <<0, 1>>, <<2, 0>> >>),
      FromRows(<< <<3, 3>>, <<4, 4>> >>),
      FromRows(<< <<1, 2>> >>) }

TolSet == {Rat(1, 1000), D(2)}

-----------------------------------------------------------------------------
(* Numeric kernels: one output cell of add / subtract / multiply *)

\* the shape precondition each arithmetic function tests first
\* a shape test that lets a narrower first operand of + or - through
ShapeOKNarrowerFirst(op, a, b) ==
    IF op = "Multiplication"
    THEN a.cols = b.rows
    ELSE a.rows = b.rows /\ a.cols <= b.cols

ShapeOK(op, a, b) ==
    IF op = "Multiplication"
    THEN a.cols = b.rows
    ELSE a.rows = b.rows /\ a.cols = b.cols

ResultRows(op, a, b) == a.rows
ResultCols(op, a, b) == IF op = "Multiplication" THEN b.cols ELSE a.cols

\* sum += m1->data[i][k] * m2->data[k][j], for k = from .. a.cols - 1, in increasing k
RECURSIVE DotFrom(_, _, _, _, _, _)
DotFrom(a, b, i, j, k, sum) ==
    IF k >= a.cols THEN sum
    ELSE DotFrom(a, b, i, j, k + 1, DAdd(sum, DMul(a.data[i][k], b.data[k][j])))

\* a cell computation whose subtraction has its operands the wrong way round
CellValueOperandsSwapped(op, a, b, i, j) ==
    CASE op = "Addition"       -> DAdd(a.data[i][j], b.data[i][j])
      [] op = "Subtraction"    -> DSub(b.data[i][j], a.data[i][j])
      [] op = "Multiplication" -> DotFrom(a, b, i, j, 0, D(0))

CellValue(op, a, b, i, j) ==
    CASE op = "Addition"       -> DAdd(a.data[i][j], b.data[i][j])
      [] op = "Subtraction"    -> DSub(a.data[i][j], b.data[i][j])
      [] op = "Multiplication" -> DotFrom(a, b, i, j, 0, D(0))

\* the whole result, as the sequential double loop fills it
FullResult(op, a, b, name) ==
    [name |-> name, rows |-> ResultRows(op, a, b), cols |-> ResultCols(op, a, b),
     data |-> [i \in 0..(ResultRows(op, a, b) - 1) |->
                 [j \in 0..(ResultCols(op, a, b) - 1) |-> CellValue(op, a, b, i, j)]]]

\* add_matrices / subtract_matrices / multiply_matrices (matrix_arithmetic.c)
PlainArith(op, a, b, name, allocOK) ==
    IF ~ShapeOK(op, a, b) THEN NULL
    ELSE IF ~allocOK THEN NULL
    ELSE FullResult(op, a, b, name)

-----------------------------------------------------------------------------
(* Bookkeeping shared by the strategies *)

Strategies == <<"single", "openmp", "multiproc">>

\* an order of calls that leaves the OpenMP strategy out
NextStageSkipsOpenmp(s) ==
    CASE s = "single" -> "multiproc"
      [] s = "openmp" -> "multiproc"
      [] s = "multiproc" -> "select"

NextStage(s) ==
    CASE s = "single" -> "openmp"
      [] s = "openmp" -> "multiproc"
      [] s = "multiproc" -> "select"

\* the strategy functions a client can also call itself
DirectDet == {"determinant_single", "determinant_openmp", "determinant_multiprocess"}

DirectEigen == {"eigen_qr_single", "eigen_qr_openmp", "eigen_qr_multiprocess"}

StrategyOf(e) ==
    CASE e \in {"determinant_single", "eigen_qr_single"} -> "single"
      [] e \in {"determinant_openmp", "eigen_qr_openmp"} -> "openmp"
      [] e \in {"determinant_multiprocess", "eigen_qr_multiprocess"} -> "multiproc"

\* where control goes when strategy s returns: to the next call of the
\* harness, or back to the client that called the strategy itself
ReturnStage(s) == IF entry \in DirectDet \cup DirectEigen THEN "done" ELSE NextStage(s)

NoEffects == [alloc |-> 0, pipe |-> 0, fork |-> 0, cell |-> 0, read |-> 0]

NoFrame == [none |-> TRUE]

\* snprintf(temp_name, ..., "%s_single" / "%s_openmp" / "%s_multiproc", result_name)
TempName(s) ==
    CASE s = "single" -> "R_single"
      [] s = "openmp" -> "R_openmp"
      [] s = "multiproc" -> "R_multiproc"

OpOf(e) ==
    CASE e \in {"add_matrices"} -> "Addition"
      [] e \in {"subtract_matrices"} -> "Subtraction"
      [] e \in {"multiply_matrices"} -> "Multiplication"

\* the running strategy returns v to the harness, which stores it and moves on
StrategyReturns(v) ==
    /\ res' = [res EXCEPT ![hpc] = v]
    /\ hpc' = ReturnStage(hpc)
    /\ spc' = "idle"
    /\ wk' = NoFrame

Bump(s, f) == effects' = [effects EXCEPT ![s][f] = @ + 1]

\* f with key k added (or overwritten)
Ext(f, k, v) == [x \in (DOMAIN f) \cup {k} |-> IF x = k THEN v ELSE f[x]]

NoUnits == [u \in {} |-> 0]

\* a worker has terminated (normally or not): its write end is closed and it can be reaped
Terminated(st) == st \in {"exited0", "exited1", "killed"}

\* the write ends a child inherits at fork(): those open in the parent then
InheritedWriteEnds == {x \in DOMAIN pipes : pipes[x].w}

\* read() on the read end of pipe u returns 0: no write end of u is open any
\* more, in the parent or in a process that inherited one
EndOfFile(u) ==
    /\ ~pipes[u].w
    /\ \A v \in DOMAIN procs : u \in procs[v].wends => Terminated(procs[v].st)

-----------------------------------------------------------------------------
(* add_matrices_single, subtract_matrices_single, multiply_matrices_single *)

InArith == entry = "run_operation_comparison"

matrices_single ==
    /\ InArith /\ hpc = "single"
    /\ IF ~ShapeOK(operation, m1, m2)
       THEN /\ StrategyReturns(NULL)
            /\ UNCHANGED <<metrics, effects>>
       ELSE \/ \* create_matrix fails
               /\ StrategyReturns(NULL)
               /\ UNCHANGED <<metrics, effects>>
            \/ \E t \in Times :
                 /\ StrategyReturns(FullResult(operation, m1, m2, TempName("single")))
                 /\ metrics' = [metrics EXCEPT !.single_thread_time = t]
                 /\ effects' = [effects EXCEPT
                        !.single.alloc = @ + 1,
                        !.single.cell = @ + ResultRows(operation, m1, m2) * ResultCols(operation, m1, m2)]
    /\ UNCHANGED <<freed, entry, col, operation, m1, m2, max_iter, tol, ret, out_det, pipes, procs, chan>>

-----------------------------------------------------------------------------
(* add_matrices_openmp, subtract_matrices_openmp, multiply_matrices_openmp:   *)
(* the collapsed parallel-for runs its iterations in any order and joins them *)
(* at the end of the loop.                                                    *)

matrices_openmp_begin ==
    /\ InArith /\ hpc = "openmp" /\ spc = "idle"
    /\ IF ~ShapeOK(operation, m1, m2)
       THEN /\ StrategyReturns(NULL)
            /\ UNCHANGED effects
       ELSE \/ /\ StrategyReturns(NULL)
               /\ UNCHANGED effects
            \/ /\ spc' = "region"
               /\ wk' = [result |-> create_matrix(TempName("openmp"),
                                       ResultRows(operation, m1, m2), ResultCols(operation, m1, m2)),
                         pending |-> Cells(ResultRows(operation, m1, m2), ResultCols(operation, m1, m2))]
               /\ Bump("openmp", "alloc")
               /\ UNCHANGED <<res, hpc>>
    /\ UNCHANGED <<freed, entry, col, operation, m1, m2, max_iter, tol, metrics, ret, out_det, pipes, procs, chan>>

matrices_openmp_iteration ==
    /\ InArith /\ hpc = "openmp" /\ spc = "region"
    /\ \E c \in wk.pending :
         wk' = [result |-> SetCell(wk.result, c[1], c[2], CellValue(operation, m1, m2, c[1], c[2])),
                pending |-> wk.pending \ {c}]
    /\ Bump("openmp", "cell")
    /\ UNCHANGED <<freed, entry, col, operation, m1, m2, max_iter, tol, metrics, hpc, spc, res, ret, out_det,
                   pipes, procs, chan>>

matrices_openmp_end ==
    /\ InArith /\ hpc = "openmp" /\ spc = "region"
    /\ wk.pending = {}
    /\ \E t \in Times : metrics' = [metrics EXCEPT !.openmp_time = t]
    /\ StrategyReturns(wk.result)
    /\ UNCHANGED <<freed, entry, col, operation, m1, m2, max_iter, tol, ret, out_det, pipes, procs, chan, effects>>

-----------------------------------------------------------------------------
(* add_matrices_multiprocess, subtract_matrices_multiprocess,                *)
(* multiply_matrices_multiprocess: one pipe and one forked child per cell.   *)

\* the cell the creation loop is at when elem_idx = idx (for i: for j: elem_idx++)
ForkCell(idx, cols) == <<idx \div cols, idx % cols>>

\* the cell the collection loop is at when elem_idx = idx (for i: for j: elem_idx++)
CollectCell(idx, cols) == <<idx \div cols, idx % cols>>

matrices_multiprocess_begin ==
    /\ InArith /\ hpc = "multiproc" /\ spc = "idle"
    /\ IF ~ShapeOK(operation, m1, m2)
       THEN /\ StrategyReturns(NULL)
            /\ UNCHANGED effects
       ELSE \/ \* create_matrix fails
               /\ StrategyReturns(NULL)
               /\ UNCHANGED effects
            \/ \* malloc of pids fails: free_matrix(result)
               /\ StrategyReturns(NULL)
               /\ Bump("multiproc", "alloc")
            \/ /\ spc' = "pipe"
               /\ wk' = [result |-> create_matrix(TempName("multiproc"),
                                       ResultRows(operation, m1, m2), ResultCols(operation, m1, m2)),
                         total_elements |-> ResultRows(operation, m1, m2) * ResultCols(operation, m1, m2),
                         elem_idx |-> 0]
               /\ Bump("multiproc", "alloc")
               /\ UNCHANGED <<res, hpc>>
    /\ UNCHANGED <<freed, entry, col, operation, m1, m2, max_iter, tol, metrics, ret, out_det, pipes, procs, chan>>

\* pipe(pipes[elem_idx])
matrices_multiprocess_pipe ==
    /\ InArith /\ hpc = "multiproc" /\ spc = "pipe"
    /\ \/ /\ pipes' = Ext(pipes, wk.elem_idx, [r |-> TRUE, w |-> TRUE])
          /\ chan' = Ext(chan, wk.elem_idx, <<>>)
          /\ spc' = "fork"
          /\ Bump("multiproc", "pipe")
          /\ UNCHANGED <<res, hpc, wk>>
       \/ \* pipe() == -1: free(pids); free_matrix(result); return NULL
          /\ StrategyReturns(NULL)
          /\ UNCHANGED <<pipes, chan, effects>>
    /\ UNCHANGED <<freed, entry, col, operation, m1, m2, max_iter, tol, metrics, ret, out_det, procs>>

\* a fork step that, when fork() fails, returns the result as far as it is filled
matrices_multiprocess_fork_returns_partial ==
    /\ InArith /\ hpc = "multiproc" /\ spc = "fork"
    /\ \/ /\ procs' = Ext(procs, wk.elem_idx,
                          [st |-> "running", waited |-> FALSE, cell |-> ForkCell(wk.elem_idx, wk.result.cols),
                           wends |-> InheritedWriteEnds])
          /\ pipes' = [pipes EXCEPT ![wk.elem_idx].w = FALSE]
          /\ wk' = [wk EXCEPT !.elem_idx = IF @ + 1 = wk.total_elements THEN 0 ELSE @ + 1]
          /\ spc' = IF wk.elem_idx + 1 = wk.total_elements THEN "collect" ELSE "pipe"
          /\ Bump("multiproc", "fork")
          /\ UNCHANGED <<res, hpc>>
       \/ /\ StrategyReturns(wk.result)
          /\ UNCHANGED <<pipes, procs, effects>>
    /\ UNCHANGED <<freed, entry, col, operation, m1, m2, max_iter, tol, metrics, ret, out_det, chan>>

\* a fork step after which the parent keeps the write end of the pipe open
matrices_multiprocess_fork_keeps_write_end ==
    /\ InArith /\ hpc = "multiproc" /\ spc = "fork"
    /\ \/ /\ procs' = Ext(procs, wk.elem_idx,
                          [st |-> "running", waited |-> FALSE, cell |-> ForkCell(wk.elem_idx, wk.result.cols),
                           wends |-> InheritedWriteEnds])
          /\ wk' = [wk EXCEPT !.elem_idx = IF @ + 1 = wk.total_elements THEN 0 ELSE @ + 1]
          /\ spc' = IF wk.elem_idx + 1 = wk.total_elements THEN "collect" ELSE "pipe"
          /\ Bump("multiproc", "fork")
          /\ UNCHANGED <<res, hpc, pipes>>
       \/ /\ StrategyReturns(NULL)
          /\ UNCHANGED <<pipes, procs, effects>>
    /\ UNCHANGED <<freed, entry, col, operation, m1, m2, max_iter, tol, metrics, ret, out_det, chan>>

\* fork(); in the parent: pids[elem_idx] = pid; close(pipes[elem_idx][1]); elem_idx++
matrices_multiprocess_fork ==
    /\ InArith /\ hpc = "multiproc" /\ spc = "fork"
    /\ \/ /\ procs' = Ext(procs, wk.elem_idx,
                          [st |-> "running", waited |-> FALSE, cell |-> ForkCell(wk.elem_idx, wk.result.cols),
                           wends |-> InheritedWriteEnds])
          /\ pipes' = [pipes EXCEPT ![wk.elem_idx].w = FALSE]
          /\ wk' = [wk EXCEPT !.elem_idx = IF @ + 1 = wk.total_elements THEN 0 ELSE @ + 1]
          /\ spc' = IF wk.elem_idx + 1 = wk.total_elements THEN "collect" ELSE "pipe"
          /\ Bump("multiproc", "fork")
          /\ UNCHANGED <<res, hpc>>
       \/ \* fork() == -1: free(pids); free_matrix(result); return NULL
          /\ StrategyReturns(NULL)
          /\ UNCHANGED <<pipes, procs, effects>>
    /\ UNCHANGED <<freed, entry, col, operation, m1, m2, max_iter, tol, metrics, ret, out_det, chan>>

\* child: compute its cell from its copy of the operands, write one double
matrices_child_write ==
    /\ InArith
    /\ \E u \in DOMAIN procs :
         /\ procs[u].st = "running"
         /\ chan' = [chan EXCEPT ![u] = Append(@, CellValue(operation, m1, m2,
                                                   procs[u].cell[1], procs[u].cell[2]))]
         /\ procs' = [procs EXCEPT ![u].st = "wrote"]
    /\ UNCHANGED <<freed, entry, col, operation, m1, m2, max_iter, tol, metrics, hpc, spc, res, ret, out_det,
                   wk, pipes, effects>>

\* child: close(pipes[elem_idx][1]); exit(0)
matrices_child_exit ==
    /\ InArith
    /\ \E u \in DOMAIN procs :
         /\ procs[u].st = "wrote"
         /\ procs' = [procs EXCEPT ![u].st = "exited0"]
    /\ UNCHANGED <<freed, entry, col, operation, m1, m2, max_iter, tol, metrics, hpc, spc, res, ret, out_det,
                   wk, pipes, chan, effects>>

\* the child is terminated by a signal before it wrote
matrices_child_killed ==
    /\ InArith
    /\ \E u \in DOMAIN procs :
         /\ procs[u].st = "running"
         /\ procs' = [procs EXCEPT ![u].st = "killed"]
    /\ UNCHANGED <<freed, entry, col, operation, m1, m2, max_iter, tol, metrics, hpc, spc, res, ret, out_det,
                   wk, pipes, chan, effects>>

\* read(pipes[elem_idx][0], &sum, sizeof(double)); result->data[i][j] = sum;
\* close(pipes[elem_idx][0]).  read blocks until a double is there or every
\* write end is closed; its return value is not looked at.
matrices_multiprocess_read ==
    /\ InArith /\ hpc = "multiproc" /\ spc = "collect"
    /\ wk.elem_idx \in DOMAIN procs
    /\ LET u == wk.elem_idx
           c == CollectCell(u, wk.result.cols)
       IN  \/ /\ Len(chan[u]) > 0
              /\ wk' = [wk EXCEPT !.result = SetCell(@, c[1], c[2], Head(chan[u]))]
              /\ chan' = [chan EXCEPT ![u] = Tail(@)]
              /\ Bump("multiproc", "read")
           \/ /\ Len(chan[u]) = 0 /\ EndOfFile(u)
              /\ \E g \in Garbage : wk' = [wk EXCEPT !.result = SetCell(@, c[1], c[2], g)]
              /\ UNCHANGED <<chan, effects>>
    /\ pipes' = [pipes EXCEPT ![wk.elem_idx].r = FALSE]
    /\ spc' = "wait"
    /\ UNCHANGED <<freed, entry, col, operation, m1, m2, max_iter, tol, metrics, hpc, res, ret, out_det, procs>>

\* waitpid(pids[elem_idx], NULL, 0); elem_idx++
matrices_multiprocess_wait ==
    /\ InArith /\ hpc = "multiproc" /\ spc = "wait"
    /\ Terminated(procs[wk.elem_idx].st)
    /\ procs' = [procs EXCEPT ![wk.elem_idx].waited = TRUE]
    /\ wk' = [wk EXCEPT !.elem_idx = @ + 1]
    /\ spc' = IF wk.elem_idx + 1 = wk.total_elements THEN "finish" ELSE "collect"
    /\ UNCHANGED <<freed, entry, col, operation, m1, m2, max_iter, tol, metrics, hpc, res, ret, out_det,
                   pipes, chan, effects>>

\* free(pids); *exec_time = end - start; return result
matrices_multiprocess_end ==
    /\ InArith /\ hpc = "multiproc" /\ spc = "finish"
    /\ \E t \in Times : metrics' = [metrics EXCEPT !.multiprocess_time = t]
    /\ StrategyReturns(wk.result)
    /\ UNCHANGED <<freed, entry, col, operation, m1, m2, max_iter, tol, ret, out_det, pipes, procs, chan, effects>>

-----------------------------------------------------------------------------
(* run_operation_comparison: after the three strategies, pick the fastest *)

\* "Determine fastest method": the strategy whose result becomes fastest_result
OperationFastest(mt) ==
    LET t1 == mt.single_thread_time
        c2 == IF mt.openmp_time < t1 THEN "openmp" ELSE "single"
        t2 == IF mt.openmp_time < t1 THEN mt.openmp_time ELSE t1
    IN  IF mt.multiprocess_time < t2 THEN "multiproc" ELSE c2

\* a selection that returns the fastest result under the name it was built with
RenamedNot(r) == r

\* strncpy(fastest_result->name, result_name, ...)
Renamed(r) == IF r = NULL THEN NULL ELSE [r EXCEPT !.name = "R"]

run_operation_comparison_select ==
    /\ InArith /\ hpc = "select"
    /\ LET f == OperationFastest(metrics)
       IN  /\ freed' = {s \in {"single", "openmp", "multiproc"} : res[s] # NULL /\ s # f}
           /\ ret' = Renamed(res[f])
           /\ wk' = [fastest |-> f]
    /\ hpc' = "done"
    /\ UNCHANGED <<entry, col, operation, m1, m2, max_iter, tol, metrics, spc, res, out_det,
                   pipes, procs, chan, effects>>

-----------------------------------------------------------------------------
(* add_matrices, subtract_matrices, multiply_matrices called by the client *)

InPlainArith == entry \in {"add_matrices", "subtract_matrices", "multiply_matrices"}

plain_matrices ==
    /\ InPlainArith /\ hpc = "plain"
    /\ IF ~ShapeOK(OpOf(entry), m1, m2)
       THEN /\ ret' = PlainArith(OpOf(entry), m1, m2, "R", TRUE)
            /\ UNCHANGED effects
       ELSE \/ /\ ret' = PlainArith(OpOf(entry), m1, m2, "R", FALSE)
               /\ UNCHANGED effects
            \/ /\ ret' = PlainArith(OpOf(entry), m1, m2, "R", TRUE)
               /\ effects' = [effects EXCEPT
                      !.plain.alloc = @ + 1,
                      !.plain.cell = @ + ResultRows(OpOf(entry), m1, m2) * ResultCols(OpOf(entry), m1, m2)]
    /\ hpc' = "done"
    /\ UNCHANGED <<freed, entry, col, operation, m1, m2, max_iter, tol, metrics, spc, res, out_det,
                   wk, pipes, procs, chan>>

-----------------------------------------------------------------------------
(* Gaussian elimination with partial pivoting: the steps every determinant   *)
(* function performs on its private workspace A (n x n)                      *)

\* PIVOT_EPS is 1e-12, that is 10^(-PIVOT_EPS_DIGITS)
PIVOT_EPS_DIGITS == 12

\* n * 10^e < d, for n >= 0 and d > 0, without forming 10^e
RECURSIVE LtScaled(_, _, _)
LtScaled(n, d, e) == IF e = 0 THEN n < d ELSE LtScaled(n, (d + 9) \div 10, e - 1)

\* fabs(v) < PIVOT_EPS
BelowPivotEps(v) == LtScaled(Abs(v.n), v.d, PIVOT_EPS_DIGITS)

copy_matrix_contiguous(m) == m.data

\* a search in which a later row of equal magnitude replaces the candidate
RECURSIVE PivotSearchKeepsLater(_, _, _, _, _, _)
PivotSearchKeepsLater(A, n, k, i, pivot_row, max_abs) ==
    IF i >= n THEN pivot_row
    ELSE IF ~DLt(fabs(A[i][k]), max_abs)
         THEN PivotSearchKeepsLater(A, n, k, i + 1, i, fabs(A[i][k]))
         ELSE PivotSearchKeepsLater(A, n, k, i + 1, pivot_row, max_abs)

\* for (i = from; i < n; ++i) { v = fabs(A[i][k]); if (v > max_abs) { max_abs = v; pivot_row = i; } }
RECURSIVE PivotSearch(_, _, _, _, _, _)
PivotSearch(A, n, k, i, pivot_row, max_abs) ==
    IF i >= n THEN pivot_row
    ELSE IF DLt(max_abs, fabs(A[i][k]))
         THEN PivotSearch(A, n, k, i + 1, i, fabs(A[i][k]))
         ELSE PivotSearch(A, n, k, i + 1, pivot_row, max_abs)

PivotRow(A, n, k) == PivotSearch(A, n, k, k + 1, k, fabs(A[k][k]))

\* a swap that leaves the rows where they are
SwapRowsForgotten(A, n, k, p) == A

\* swap rows k and p in columns k .. n-1
SwapRows(A, n, k, p) ==
    [i \in 0..(n - 1) |-> [j \in 0..(n - 1) |->
        IF j < k THEN A[i][j]
        ELSE IF i = k THEN A[p][j]
        ELSE IF i = p THEN A[k][j]
        ELSE A[i][j]]]

\* factor = A[i][k] / akk; A[i][k] = 0.0; A[i][j] -= factor * A[k][j] for j > k
UpdatedCell(A, k, i, j) ==
    IF j = k THEN D(0)
    ELSE FSub(A[i][j], FMul(FDiv(A[i][k], A[k][k]), A[k][j]))

RowUpdate(A, n, k, i) ==
    [A EXCEPT ![i] = [j \in 0..(n - 1) |-> IF j < k THEN A[i][j] ELSE UpdatedCell(A, k, i, j)]]

RECURSIVE EliminateFrom(_, _, _, _)
EliminateFrom(A, n, k, i) ==
    IF i >= n THEN A ELSE EliminateFrom(RowUpdate(A, n, k, i), n, k, i + 1)

\* det = det_sign; for (i = 0; i < n; ++i) det *= A[i][i]
RECURSIVE DiagProduct(_, _, _, _)
DiagProduct(A, n, i, det) ==
    IF i >= n THEN det ELSE DiagProduct(A, n, i + 1, FMul(det, A[i][i]))

\* a pivot step that flips the sign whether it swaps or not
PivotStepAlwaysFlips(A, n, k, det_sign) ==
    LET p == PivotRow(A, n, k)
    IN  IF BelowPivotEps(A[p][k])
        THEN [singular |-> TRUE, A |-> A, det_sign |-> det_sign]
        ELSE [singular |-> FALSE, A |-> IF p # k THEN SwapRows(A, n, k, p) ELSE A,
              det_sign |-> -det_sign]

\* a pivot step whose swap leaves the sign as it was
PivotStepKeepsSign(A, n, k, det_sign) ==
    LET p == PivotRow(A, n, k)
    IN  IF BelowPivotEps(A[p][k])
        THEN [singular |-> TRUE, A |-> A, det_sign |-> det_sign]
        ELSE [singular |-> FALSE, A |-> IF p # k THEN SwapRows(A, n, k, p) ELSE A,
              det_sign |-> det_sign]

\* pivot search, singularity test and row swap of step k:
\* [singular, A, det_sign] after them
PivotStep(A, n, k, det_sign) ==
    LET p == PivotRow(A, n, k)
    IN  IF BelowPivotEps(A[p][k])
        THEN [singular |-> TRUE, A |-> A, det_sign |-> det_sign]
        ELSE IF p # k
             THEN [singular |-> FALSE, A |-> SwapRows(A, n, k, p), det_sign |-> -det_sign]
             ELSE [singular |-> FALSE, A |-> A, det_sign |-> det_sign]

InDet == entry = "run_determinant_comparison"

\* a determinant strategy runs for the harness or for a client of its own
InDetStrategy == InDet \/ entry \in DirectDet

TimeSlot(s) ==
    CASE s = "single" -> "single_thread_time"
      [] s = "openmp" -> "openmp_time"
      [] s = "multiproc" -> "multiprocess_time"

\* a return that reports a zero determinant as a failure
DetReturnsZeroAsFailure(rc, wrote, det) ==
    /\ res' = [res EXCEPT ![hpc] = [rc |-> IF det = D(0) THEN 0 ELSE rc,
                                    det |-> IF wrote THEN det ELSE @.det]]
    /\ hpc' = ReturnStage(hpc)
    /\ spc' = "idle"
    /\ wk' = NoFrame

\* a determinant strategy returns rc to the harness; wrote tells whether it
\* stored det through out_det (det1, det2 or det3 of the harness)
DetReturns(rc, wrote, det) ==
    /\ res' = [res EXCEPT ![hpc] = [rc |-> rc, det |-> IF wrote THEN det ELSE @.det]]
    /\ hpc' = ReturnStage(hpc)
    /\ spc' = "idle"
    /\ wk' = NoFrame

\* if (exec_time) *exec_time = get_time() - start
WritesTime == \E t \in Times : metrics' = [metrics EXCEPT ![TimeSlot(hpc)] = t]

-----------------------------------------------------------------------------
(* determinant_single *)

\* a begin that copies the matrix before it looks at the shape
determinant_single_begin_copy_first ==
    /\ InDetStrategy /\ hpc = "single" /\ spc = "idle"
    /\ \/ /\ DetReturns(0, FALSE, D(0))
          /\ UNCHANGED effects
       \/ /\ Bump("single", "alloc")
          /\ IF m1.rows # m1.cols
             THEN DetReturns(0, FALSE, D(0))
             ELSE /\ wk' = [A |-> copy_matrix_contiguous(m1), n |-> m1.rows, k |-> 0, det_sign |-> 1]
                  /\ spc' = "loop"
                  /\ UNCHANGED <<res, hpc>>
    /\ UNCHANGED <<freed, entry, col, operation, m1, m2, max_iter, tol, metrics, ret, out_det, pipes, procs, chan>>

determinant_single_begin ==
    /\ InDetStrategy /\ hpc = "single" /\ spc = "idle"
    /\ IF m1.rows # m1.cols
       THEN /\ DetReturns(0, FALSE, D(0))
            /\ UNCHANGED effects
       ELSE \/ \* copy_matrix_contiguous fails
               /\ DetReturns(0, FALSE, D(0))
               /\ UNCHANGED effects
            \/ /\ wk' = [A |-> copy_matrix_contiguous(m1), n |-> m1.rows, k |-> 0, det_sign |-> 1]
               /\ spc' = "loop"
               /\ Bump("single", "alloc")
               /\ UNCHANGED <<res, hpc>>
    /\ UNCHANGED <<freed, entry, col, operation, m1, m2, max_iter, tol, metrics, ret, out_det, pipes, procs, chan>>

\* an elimination step carried out in the rows of the input matrix
determinant_single_step_in_place ==
    /\ InDetStrategy /\ hpc = "single" /\ spc = "loop"
    /\ wk.k < wk.n
    /\ LET ps == PivotStep(wk.A, wk.n, wk.k, wk.det_sign)
       IN  IF ps.singular
           THEN /\ DetReturns(1, TRUE, D(0))
                /\ WritesTime
                /\ UNCHANGED <<effects, m1>>
           ELSE /\ wk' = [wk EXCEPT !.A = EliminateFrom(ps.A, wk.n, wk.k, wk.k + 1),
                                    !.det_sign = ps.det_sign,
                                    !.k = @ + 1]
                /\ m1' = [m1 EXCEPT !.data = EliminateFrom(ps.A, wk.n, wk.k, wk.k + 1)]
                /\ effects' = [effects EXCEPT !.single.cell = @ + (wk.n - wk.k - 1)]
                /\ UNCHANGED <<res, hpc, spc, metrics>>
    /\ UNCHANGED <<freed, entry, col, operation, m2, max_iter, tol, ret, out_det, pipes, procs, chan>>

\* one iteration of for (k = 0; k < n; ++k)
determinant_single_step ==
    /\ InDetStrategy /\ hpc = "single" /\ spc = "loop"
    /\ wk.k < wk.n
    /\ LET ps == PivotStep(wk.A, wk.n, wk.k, wk.det_sign)
       IN  IF ps.singular
           THEN /\ DetReturns(1, TRUE, D(0))
                /\ WritesTime
                /\ UNCHANGED effects
           ELSE /\ wk' = [wk EXCEPT !.A = EliminateFrom(ps.A, wk.n, wk.k, wk.k + 1),
                                    !.det_sign = ps.det_sign,
                                    !.k = @ + 1]
                /\ effects' = [effects EXCEPT !.single.cell = @ + (wk.n - wk.k - 1)]
                /\ UNCHANGED <<res, hpc, spc, metrics>>
    /\ UNCHANGED <<freed, entry, col, operation, m1, m2, max_iter, tol, ret, out_det, pipes, procs, chan>>

determinant_single_end ==
    /\ InDetStrategy /\ hpc = "single" /\ spc = "loop"
    /\ wk.k = wk.n
    /\ DetReturns(1, TRUE, DiagProduct(wk.A, wk.n, 0, D(wk.det_sign)))
    /\ WritesTime
    /\ UNCHANGED <<freed, entry, col, operation, m1, m2, max_iter, tol, ret, out_det, pipes, procs, chan, effects>>

-----------------------------------------------------------------------------
(* determinant_gauss_partial_pivot, called by the client directly *)

InPlainDet == entry = "determinant_gauss_partial_pivot"

\* return rc to the client
PlainDetReturns(rc) ==
    /\ ret' = IntRet(rc)
    /\ hpc' = "done"
    /\ spc' = "idle"
    /\ wk' = NoFrame

determinant_gauss_partial_pivot_begin ==
    /\ InPlainDet /\ hpc = "plain" /\ spc = "idle"
    /\ IF m1.rows # m1.cols
       THEN /\ PlainDetReturns(0)
            /\ UNCHANGED effects
       ELSE \/ \* malloc fails
               /\ PlainDetReturns(0)
               /\ UNCHANGED effects
            \/ /\ wk' = [A |-> copy_matrix_contiguous(m1), n |-> m1.rows, k |-> 0, det_sign |-> 1]
               /\ spc' = "loop"
               /\ Bump("plain", "alloc")
               /\ UNCHANGED <<ret, hpc>>
    /\ UNCHANGED <<freed, entry, col, operation, m1, m2, max_iter, tol, metrics, res, out_det, pipes, procs, chan>>

\* one iteration of for (k = 0; k < n; ++k)
determinant_gauss_partial_pivot_step ==
    /\ InPlainDet /\ hpc = "plain" /\ spc = "loop"
    /\ wk.k < wk.n
    /\ LET ps == PivotStep(wk.A, wk.n, wk.k, wk.det_sign)
       IN  IF ps.singular
           THEN /\ out_det' = D(0)
                /\ PlainDetReturns(1)
                /\ UNCHANGED effects
           ELSE /\ wk' = [wk EXCEPT !.A = EliminateFrom(ps.A, wk.n, wk.k, wk.k + 1),
                                    !.det_sign = ps.det_sign,
                                    !.k = @ + 1]
                /\ effects' = [effects EXCEPT !.plain.cell = @ + (wk.n - wk.k - 1)]
                /\ UNCHANGED <<ret, hpc, spc, out_det>>
    /\ UNCHANGED <<freed, entry, col, operation, m1, m2, max_iter, tol, metrics, res, pipes, procs, chan>>

determinant_gauss_partial_pivot_end ==
    /\ InPlainDet /\ hpc = "plain" /\ spc = "loop"
    /\ wk.k = wk.n
    /\ out_det' = DiagProduct(wk.A, wk.n, 0, D(wk.det_sign))
    /\ PlainDetReturns(1)
    /\ UNCHANGED <<freed, entry, col, operation, m1, m2, max_iter, tol, metrics, res, pipes, procs, chan, effects>>

-----------------------------------------------------------------------------
(* determinant_openmp: the row updates of one step run in any order and are  *)
(* joined before the next step                                               *)

determinant_openmp_begin ==
    /\ InDetStrategy /\ hpc = "openmp" /\ spc = "idle"
    /\ IF m1.rows # m1.cols
       THEN /\ DetReturns(0, FALSE, D(0))
            /\ UNCHANGED effects
       ELSE \/ /\ DetReturns(0, FALSE, D(0))
               /\ UNCHANGED effects
            \/ /\ wk' = [A |-> copy_matrix_contiguous(m1), n |-> m1.rows, k |-> 0, det_sign |-> 1,
                         pending |-> {}]
               /\ spc' = "loop"
               /\ Bump("openmp", "alloc")
               /\ UNCHANGED <<res, hpc>>
    /\ UNCHANGED <<freed, entry, col, operation, m1, m2, max_iter, tol, metrics, ret, out_det, pipes, procs, chan>>

\* pivot search, test and swap of step k (serial); opens the parallel region
determinant_openmp_pivot ==
    /\ InDetStrategy /\ hpc = "openmp" /\ spc = "loop"
    /\ wk.k < wk.n
    /\ LET ps == PivotStep(wk.A, wk.n, wk.k, wk.det_sign)
       IN  IF ps.singular
           THEN /\ DetReturns(1, TRUE, D(0))
                /\ WritesTime
           ELSE /\ wk' = [wk EXCEPT !.A = ps.A, !.det_sign = ps.det_sign,
                                    !.pending = (wk.k + 1)..(wk.n - 1)]
                /\ spc' = "region"
                /\ UNCHANGED <<res, hpc, metrics>>
    /\ UNCHANGED <<freed, entry, col, operation, m1, m2, max_iter, tol, ret, out_det, pipes, procs, chan, effects>>

\* one iteration i of the parallel for
determinant_openmp_row ==
    /\ InDetStrategy /\ hpc = "openmp" /\ spc = "region"
    /\ \E i \in wk.pending :
         wk' = [wk EXCEPT !.A = RowUpdate(wk.A, wk.n, wk.k, i), !.pending = @ \ {i}]
    /\ Bump("openmp", "cell")
    /\ UNCHANGED <<freed, entry, col, operation, m1, m2, max_iter, tol, metrics, hpc, spc, res, ret, out_det,
                   pipes, procs, chan>>

\* a parallel for that is left while row updates are still to be done
determinant_openmp_join_early ==
    /\ InDetStrategy /\ hpc = "openmp" /\ spc = "region"
    /\ wk' = [wk EXCEPT !.k = @ + 1]
    /\ spc' = "loop"
    /\ UNCHANGED <<freed, entry, col, operation, m1, m2, max_iter, tol, metrics, hpc, res, ret, out_det,
                   pipes, procs, chan, effects>>

\* the implicit barrier at the end of the parallel for; ++k
determinant_openmp_join ==
    /\ InDetStrategy /\ hpc = "openmp" /\ spc = "region"
    /\ wk.pending = {}
    /\ wk' = [wk EXCEPT !.k = @ + 1]
    /\ spc' = "loop"
    /\ UNCHANGED <<freed, entry, col, operation, m1, m2, max_iter, tol, metrics, hpc, res, ret, out_det,
                   pipes, procs, chan, effects>>

determinant_openmp_end ==
    /\ InDetStrategy /\ hpc = "openmp" /\ spc = "loop"
    /\ wk.k = wk.n
    /\ DetReturns(1, TRUE, DiagProduct(wk.A, wk.n, 0, D(wk.det_sign)))
    /\ WritesTime
    /\ UNCHANGED <<freed, entry, col, operation, m1, m2, max_iter, tol, ret, out_det, pipes, procs, chan, effects>>

-----------------------------------------------------------------------------
(* determinant_multiprocess: at each step k, one pipe and one forked child   *)
(* per row below the pivot; the child sends back columns k .. n-1 of its row *)

\* the child's buf: buf[0] = 0.0; buf[j - k] = A[i][j] - factor * A[k][j], computed
\* on the child's copy of the workspace; as the doubles written, in order
RowSegment(A, n, k, i) == [jj \in 1..(n - k) |-> UpdatedCell(A, k, i, k + jj - 1)]

\* what the parent's buf holds after read(): the doubles that arrived, then
\* whatever the malloc'ed buffer held (g)
ReadBuf(arrived, seg, g) ==
    [jj \in 1..seg |-> IF jj <= Len(arrived) THEN arrived[jj] ELSE g]

\* for (j = k; j < n; ++j) A[i][j] = buf[j - k]
WriteBack(A, n, k, i, buf) ==
    [A EXCEPT ![i] = [j \in 0..(n - 1) |-> IF j < k THEN A[i][j] ELSE buf[j - k + 1]]]

determinant_multiprocess_begin ==
    /\ InDetStrategy /\ hpc = "multiproc" /\ spc = "idle"
    /\ IF m1.rows # m1.cols
       THEN /\ DetReturns(0, FALSE, D(0))
            /\ UNCHANGED effects
       ELSE \/ /\ DetReturns(0, FALSE, D(0))
               /\ UNCHANGED effects
            \/ /\ wk' = [A |-> copy_matrix_contiguous(m1), n |-> m1.rows, k |-> 0, det_sign |-> 1,
                         idx |-> 0, rowsBelow |-> 0]
               /\ spc' = "loop"
               /\ Bump("multiproc", "alloc")
               /\ UNCHANGED <<res, hpc>>
    /\ UNCHANGED <<freed, entry, col, operation, m1, m2, max_iter, tol, metrics, ret, out_det, pipes, procs, chan>>

\* pivoting in the parent, then the allocation of this step's pipes and pids
determinant_multiprocess_pivot ==
    /\ InDetStrategy /\ hpc = "multiproc" /\ spc = "loop"
    /\ wk.k < wk.n
    /\ LET ps == PivotStep(wk.A, wk.n, wk.k, wk.det_sign)
           below == wk.n - (wk.k + 1)
       IN  IF ps.singular
           THEN /\ DetReturns(1, TRUE, D(0))
                /\ WritesTime
           ELSE IF below <= 0
           THEN \* continue
                /\ wk' = [wk EXCEPT !.A = ps.A, !.det_sign = ps.det_sign, !.k = @ + 1]
                /\ UNCHANGED <<res, hpc, spc, metrics>>
           ELSE \/ \* malloc of pipes or pids fails: free(A); return 0
                   /\ DetReturns(0, FALSE, D(0))
                   /\ UNCHANGED metrics
                \/ /\ wk' = [wk EXCEPT !.A = ps.A, !.det_sign = ps.det_sign,
                                       !.idx = 0, !.rowsBelow = below]
                   /\ spc' = "pipe"
                   /\ UNCHANGED <<res, hpc, metrics>>
    /\ UNCHANGED <<freed, entry, col, operation, m1, m2, max_iter, tol, ret, out_det, pipes, procs, chan, effects>>

determinant_multiprocess_pipe ==
    /\ InDetStrategy /\ hpc = "multiproc" /\ spc = "pipe"
    /\ \/ /\ pipes' = Ext(pipes, <<wk.k, wk.idx>>, [r |-> TRUE, w |-> TRUE])
          /\ chan' = Ext(chan, <<wk.k, wk.idx>>, <<>>)
          /\ spc' = "fork"
          /\ Bump("multiproc", "pipe")
          /\ UNCHANGED <<res, hpc, wk>>
       \/ \* pipe() == -1: free(pipes); free(pids); free(A); return 0
          /\ DetReturns(0, FALSE, D(0))
          /\ UNCHANGED <<pipes, chan, effects>>
    /\ UNCHANGED <<freed, entry, col, operation, m1, m2, max_iter, tol, metrics, ret, out_det, procs>>

determinant_multiprocess_fork ==
    /\ InDetStrategy /\ hpc = "multiproc" /\ spc = "fork"
    /\ \/ /\ procs' = Ext(procs, <<wk.k, wk.idx>>,
                          [st |-> "running", waited |-> FALSE, i |-> wk.k + 1 + wk.idx, k |-> wk.k, A |-> wk.A,
                           wends |-> InheritedWriteEnds])
          /\ pipes' = [pipes EXCEPT ![<<wk.k, wk.idx>>].w = FALSE]
          /\ wk' = [wk EXCEPT !.idx = IF @ + 1 = wk.rowsBelow THEN 0 ELSE @ + 1]
          /\ spc' = IF wk.idx + 1 = wk.rowsBelow THEN "collect" ELSE "pipe"
          /\ Bump("multiproc", "fork")
          /\ UNCHANGED <<res, hpc>>
       \/ \* fork() == -1: free(pipes); free(pids); free(A); return 0
          /\ DetReturns(0, FALSE, D(0))
          /\ UNCHANGED <<pipes, procs, effects>>
    /\ UNCHANGED <<freed, entry, col, operation, m1, m2, max_iter, tol, metrics, ret, out_det, chan>>

\* child: compute the row segment on its own copy of A and write it
determinant_child_write ==
    /\ InDetStrategy
    /\ \E u \in DOMAIN procs :
         /\ procs[u].st = "running"
         /\ chan' = [chan EXCEPT ![u] =
                        @ \o RowSegment(procs[u].A, m1.rows, procs[u].k, procs[u].i)]
         /\ procs' = [procs EXCEPT ![u].st = "wrote"]
    /\ UNCHANGED <<freed, entry, col, operation, m1, m2, max_iter, tol, metrics, hpc, spc, res, ret, out_det,
                   wk, pipes, effects>>

\* child: close(pipes[idx][1]); free(buf); _exit(0)
determinant_child_exit ==
    /\ InDetStrategy
    /\ \E u \in DOMAIN procs :
         /\ procs[u].st = "wrote"
         /\ procs' = [procs EXCEPT ![u].st = "exited0"]
    /\ UNCHANGED <<freed, entry, col, operation, m1, m2, max_iter, tol, metrics, hpc, spc, res, ret, out_det,
                   wk, pipes, chan, effects>>

\* child: if (!buf) _exit(1)
determinant_child_nomem ==
    /\ InDetStrategy
    /\ \E u \in DOMAIN procs :
         /\ procs[u].st = "running"
         /\ procs' = [procs EXCEPT ![u].st = "exited1"]
    /\ UNCHANGED <<freed, entry, col, operation, m1, m2, max_iter, tol, metrics, hpc, spc, res, ret, out_det,
                   wk, pipes, chan, effects>>

\* the child is terminated by a signal before it wrote
determinant_child_killed ==
    /\ InDetStrategy
    /\ \E u \in DOMAIN procs :
         /\ procs[u].st = "running"
         /\ procs' = [procs EXCEPT ![u].st = "killed"]
    /\ UNCHANGED <<freed, entry, col, operation, m1, m2, max_iter, tol, metrics, hpc, spc, res, ret, out_det,
                   wk, pipes, chan, effects>>

\* parent: buf = malloc(bytes); read(pipes[idx][0], buf, bytes); close(pipes[idx][0]);
\* write the segment back into row i
determinant_multiprocess_read ==
    /\ InDetStrategy /\ hpc = "multiproc" /\ spc = "collect"
    /\ LET u == <<wk.k, wk.idx>>
           i == wk.k + 1 + wk.idx
           seg == wk.n - wk.k
       IN  \/ \* malloc of buf fails: free(pipes); free(pids); free(A); return 0
              /\ DetReturns(0, FALSE, D(0))
              /\ UNCHANGED <<pipes, chan, effects>>
           \/ /\ Len(chan[u]) > 0
              /\ wk' = [wk EXCEPT !.A = WriteBack(wk.A, wk.n, wk.k, i, ReadBuf(chan[u], seg, D(0)))]
              /\ chan' = [chan EXCEPT ![u] = <<>>]
              /\ pipes' = [pipes EXCEPT ![u].r = FALSE]
              /\ spc' = "wait"
              /\ Bump("multiproc", "read")
              /\ UNCHANGED <<res, hpc>>
           \/ /\ Len(chan[u]) = 0 /\ EndOfFile(u)
              /\ \E g \in Garbage :
                   wk' = [wk EXCEPT !.A = WriteBack(wk.A, wk.n, wk.k, i, ReadBuf(<<>>, seg, g))]
              /\ pipes' = [pipes EXCEPT ![u].r = FALSE]
              /\ spc' = "wait"
              /\ UNCHANGED <<res, hpc, chan, effects>>
    /\ UNCHANGED <<freed, entry, col, operation, m1, m2, max_iter, tol, metrics, ret, out_det, procs>>

\* waitpid(pids[idx], NULL, 0); after the last row: free(pipes); free(pids); ++k
determinant_multiprocess_wait ==
    /\ InDetStrategy /\ hpc = "multiproc" /\ spc = "wait"
    /\ Terminated(procs[<<wk.k, wk.idx>>].st)
    /\ procs' = [procs EXCEPT ![<<wk.k, wk.idx>>].waited = TRUE]
    /\ IF wk.idx + 1 = wk.rowsBelow
       THEN /\ wk' = [wk EXCEPT !.idx = 0, !.k = @ + 1]
            /\ spc' = "loop"
       ELSE /\ wk' = [wk EXCEPT !.idx = @ + 1]
            /\ spc' = "collect"
    /\ UNCHANGED <<freed, entry, col, operation, m1, m2, max_iter, tol, metrics, hpc, res, ret, out_det,
                   pipes, chan, effects>>

determinant_multiprocess_end ==
    /\ InDetStrategy /\ hpc = "multiproc" /\ spc = "loop"
    /\ wk.k = wk.n
    /\ DetReturns(1, TRUE, DiagProduct(wk.A, wk.n, 0, D(wk.det_sign)))
    /\ WritesTime
    /\ UNCHANGED <<freed, entry, col, operation, m1, m2, max_iter, tol, ret, out_det, pipes, procs, chan, effects>>

-----------------------------------------------------------------------------
(* run_determinant_comparison *)

\* chosen_det: the strategy whose det the harness writes to *out_det
DeterminantFastest(mt) ==
    LET t1 == mt.single_thread_time
        c2 == IF mt.openmp_time < t1 THEN "openmp" ELSE "single"
        t2 == IF mt.openmp_time < t1 THEN mt.openmp_time ELSE t1
    IN  IF mt.multiprocess_time < t2 THEN "multiproc" ELSE c2

\* if (!m || !metrics || !out_det) return 0; if (m->rows != m->cols) return 0;
run_determinant_comparison_check ==
    /\ InDet /\ hpc = "check"
    /\ IF m1.rows # m1.cols
       THEN ret' = IntRet(0) /\ hpc' = "done"
       ELSE ret' = ret /\ hpc' = "single"
    /\ UNCHANGED <<freed, entry, col, operation, m1, m2, max_iter, tol, metrics, spc, res, out_det,
                   wk, pipes, procs, chan, effects>>

run_determinant_comparison_select ==
    /\ InDet /\ hpc = "select"
    /\ LET f == DeterminantFastest(metrics)
       IN  /\ out_det' = res[f].det
           /\ wk' = [fastest |-> f]
    /\ ret' = IntRet(1)
    /\ hpc' = "done"
    /\ UNCHANGED <<freed, entry, col, operation, m1, m2, max_iter, tol, metrics, spc, res,
                   pipes, procs, chan, effects>>

-----------------------------------------------------------------------------
(* QR iteration: the kernels of eigen_qr.c on flat n x n arrays              *)

\* the column-norm threshold of the Gram-Schmidt step is 1e-14
NORM_EPS_DIGITS == 14

ISqrtOf[n \in Int, r \in Int] == IF (r + 1) * (r + 1) > n THEN r ELSE ISqrtOf[n, r + 1]

ISqrtFrom(n, r) == ISqrtOf[n, r]

SqrtOf[x \in [n : Int, d : Int]] == Rat(ISqrtFrom(x.n, 0), ISqrtFrom(x.d, 0))

\* sqrt(x): exact whenever x is the square of a rational
sqrt(x) == SqrtOf[x]

\* norm < 1e-14
BelowNormEps(v) == v.n < 0 \/ LtScaled(Abs(v.n), v.d, NORM_EPS_DIGITS)

copy_matrix_flat(m) == m.data

ZeroFlat(n) == [i \in 0..(n - 1) |-> [j \in 0..(n - 1) |-> D(0)]]

IdentityFlat(n) == [i \in 0..(n - 1) |-> [j \in 0..(n - 1) |-> IF i = j THEN D(1) ELSE D(0)]]

\* what a malloc'ed n x n buffer may hold before it is written
GarbageFlat(n) == {ZeroFlat(n), IdentityFlat(n)}

\* dot += Q[i][k] * A[i][j], i = from .. n-1
RECURSIVE ColDot(_, _, _, _, _, _, _)
ColDot(Q, A, n, k, j, i, dot) ==
    IF i >= n THEN dot
    ELSE ColDot(Q, A, n, k, j, i + 1, DAdd(dot, DMul(Q[i][k], A[i][j])))

\* norm += Q[i][j] * Q[i][j], i = from .. n-1
RECURSIVE ColSumSq(_, _, _, _, _)
ColSumSq(Q, n, j, i, acc) ==
    IF i >= n THEN acc
    ELSE ColSumSq(Q, n, j, i + 1, DAdd(acc, DMul(Q[i][j], Q[i][j])))

\* the flat n x n arrays of doubles
FlatArrays(n) == [0..(n - 1) -> [0..(n - 1) -> [n : Int, d : Int]]]

\* orthogonalise column j of Q against columns k = from .. j-1: [Q, R] after the loop
OrthogonalizeOf[n \in Nat] ==
    [A \in FlatArrays(n), Q \in FlatArrays(n), R \in FlatArrays(n), j \in Nat, k \in Nat |->
        IF k >= j THEN [Q |-> Q, R |-> R]
        ELSE LET dot == ColDot(Q, A, n, k, j, 0, D(0))
             IN  OrthogonalizeOf[n][A,
                     [i \in 0..(n - 1) |-> [Q[i] EXCEPT ![j] = DSub(@, DMul(dot, Q[i][k]))]],
                     [R EXCEPT ![k][j] = dot],
                     j, k + 1]]

Orthogonalize(A, Q, R, n, j, k) == OrthogonalizeOf[n][A, Q, R, j, k]

RECURSIVE GramSchmidtFrom(_, _, _, _, _)

\* column j once it is orthogonal to the columns before it: the norm test and
\* the normalisation, then the columns after it
NormalizeColumnOf[n \in Nat] ==
    [A \in FlatArrays(n), Q \in FlatArrays(n), R \in FlatArrays(n), j \in Nat, norm \in [n : Int, d : Int] |->
        IF BelowNormEps(norm)
        THEN [ok |-> FALSE, Q |-> Q, R |-> R]
        ELSE GramSchmidtFrom(A,
                 [i \in 0..(n - 1) |-> [Q[i] EXCEPT ![j] = DDiv(@, norm)]],
                 [R EXCEPT ![j][j] = norm],
                 n, j + 1)]

\* columns j = from .. n-1 of the Gram-Schmidt loop: [ok, Q, R]
GramSchmidtOf[n \in Nat] ==
    [A \in FlatArrays(n), Q \in FlatArrays(n), R \in FlatArrays(n), j \in Nat |->
        IF j >= n THEN [ok |-> TRUE, Q |-> Q, R |-> R]
        ELSE LET start == [i \in 0..(n - 1) |-> [Q[i] EXCEPT ![j] = A[i][j]]]
                 orth == Orthogonalize(A, start, R, n, j, 0)
             IN  NormalizeColumnOf[n][A, orth.Q, orth.R, j, sqrt(ColSumSq(orth.Q, n, j, 0, D(0)))]]

GramSchmidtFrom(A, Q, R, n, j) == GramSchmidtOf[n][A, Q, R, j]

\* memset(Q, 0), memset(R, 0), then the column loop
qr_decompose_single(A, n) == GramSchmidtFrom(A, ZeroFlat(n), ZeroFlat(n), n, 0)

\* the same loop; each inner loop over i is a parallel for (with a reduction
\* for dot and norm) that is joined before the next statement
qr_decompose_openmp(A, n) == GramSchmidtFrom(A, ZeroFlat(n), ZeroFlat(n), n, 0)

RECURSIVE MatDot(_, _, _, _, _, _, _)
MatDot(A, B, n, i, j, k, sum) ==
    IF k >= n THEN sum
    ELSE MatDot(A, B, n, i, j, k + 1, DAdd(sum, DMul(A[i][k], B[k][j])))

matmul_single(A, B, n) ==
    [i \in 0..(n - 1) |-> [j \in 0..(n - 1) |-> MatDot(A, B, n, i, j, 0, D(0))]]

\* collapse(2) parallel for: every (i, j) is computed by exactly one thread
matmul_openmp(A, B, n) ==
    [i \in 0..(n - 1) |-> [j \in 0..(n - 1) |-> MatDot(A, B, n, i, j, 0, D(0))]]

is_converged(A, n, t) ==
    \A i \in 0..(n - 1), j \in 0..(n - 1) : ~(i # j /\ DLt(t, fabs(A[i][j])))

\* the diagonal read from the last row up
extract_eigenvalues_reversed(A, n) == [i \in 0..(n - 1) |-> A[n - 1 - i][n - 1 - i]]

extract_eigenvalues(A, n) == [i \in 0..(n - 1) |-> A[i][i]]

\* a result whose round count starts at one
MakeEigenResultOneBased(A, V, n, iter) ==
    [n |-> n, iterations |-> iter + 1, eigenvalues |-> extract_eigenvalues(A, n),
     eigenvectors |-> [name |-> "Eigenvectors", rows |-> n, cols |-> n, data |-> V]]

\* the EigenResult built after the iteration loop
MakeEigenResult(A, V, n, iter) ==
    [n |-> n, iterations |-> iter, eigenvalues |-> extract_eigenvalues(A, n),
     eigenvectors |-> [name |-> "Eigenvectors", rows |-> n, cols |-> n, data |-> V]]

InEigen == entry = "run_eigen_comparison"

InEigenStrategy == InEigen \/ entry \in DirectEigen

-----------------------------------------------------------------------------
(* eigen_qr_single and eigen_qr_openmp *)

\* entry of a strategy: shape test, copy and the five work buffers
EigenBegin(s) ==
    /\ InEigenStrategy /\ hpc = s /\ spc = "idle"
    /\ IF m1.rows # m1.cols
       THEN /\ StrategyReturns(NULL)
            /\ UNCHANGED effects
       ELSE \/ \* an allocation fails
               /\ StrategyReturns(NULL)
               /\ UNCHANGED effects
            \/ /\ \E q \in GarbageFlat(m1.rows), r \in GarbageFlat(m1.rows) :
                    wk' = [A |-> copy_matrix_flat(m1), n |-> m1.rows, iter |-> 0,
                           V |-> IdentityFlat(m1.rows),
                           Q |-> IF s = "multiproc" THEN q ELSE ZeroFlat(m1.rows),
                           R |-> IF s = "multiproc" THEN r ELSE ZeroFlat(m1.rows)]
               /\ spc' = "loop"
               /\ Bump(s, "alloc")
               /\ UNCHANGED <<res, hpc>>
    /\ UNCHANGED <<freed, entry, col, operation, m1, m2, max_iter, tol, metrics, ret, out_det, pipes, procs, chan>>

\* one round of for (iter = 0; iter < max_iter; ++iter)
EigenRound(s) ==
    /\ InEigenStrategy /\ hpc = s /\ spc = "loop"
    /\ wk.iter < max_iter
    /\ ~is_converged(wk.A, wk.n, tol)
    /\ LET qr == IF s = "openmp" THEN qr_decompose_openmp(wk.A, wk.n)
                                  ELSE qr_decompose_single(wk.A, wk.n)
       IN  IF ~qr.ok
           THEN StrategyReturns(NULL)
           ELSE /\ wk' = [wk EXCEPT
                       !.Q = qr.Q, !.R = qr.R,
                       !.V = IF s = "openmp" THEN matmul_openmp(wk.V, qr.Q, wk.n)
                                             ELSE matmul_single(wk.V, qr.Q, wk.n),
                       !.A = IF s = "openmp" THEN matmul_openmp(qr.R, qr.Q, wk.n)
                                             ELSE matmul_single(qr.R, qr.Q, wk.n),
                       !.iter = @ + 1]
                /\ UNCHANGED <<res, hpc, spc>>
    /\ Bump(s, "cell")
    /\ UNCHANGED <<freed, entry, col, operation, m1, m2, max_iter, tol, metrics, ret, out_det, pipes, procs, chan>>

\* the loop ended (cap reached or converged): build the result, write the time
EigenEnd(s) ==
    /\ InEigenStrategy /\ hpc = s /\ spc = "loop"
    /\ (wk.iter >= max_iter \/ is_converged(wk.A, wk.n, tol))
    /\ StrategyReturns(MakeEigenResult(wk.A, wk.V, wk.n, wk.iter))
    /\ WritesTime
    /\ UNCHANGED <<freed, entry, col, operation, m1, m2, max_iter, tol, ret, out_det, pipes, procs, chan, effects>>

eigen_qr_single_begin == EigenBegin("single")

eigen_qr_single_round == EigenRound("single")

eigen_qr_single_end == EigenEnd("single")

eigen_qr_openmp_begin == EigenBegin("openmp")

eigen_qr_openmp_round == EigenRound("openmp")

eigen_qr_openmp_end == EigenEnd("openmp")

-----------------------------------------------------------------------------
(* eigen_qr_multiprocess: each round forks one child that decomposes A and   *)
(* writes Q, then R, into the round's pipe                                   *)

\* the n*n doubles of a flat array, in memory order
Flat(M, n) == [x \in 1..(n * n) |-> M[(x - 1) \div n][(x - 1) % n]]

Min(a, b) == IF a < b THEN a ELSE b

\* the buffer after read(fd, M, n*n*sizeof(double)) when `arrived` is in the pipe
ReadInto(M, n, arrived) ==
    [i \in 0..(n - 1) |-> [j \in 0..(n - 1) |->
        IF i * n + j + 1 <= Len(arrived) THEN arrived[i * n + j + 1] ELSE M[i][j]]]

\* what is left in the pipe after that read
LeftAfterRead(n, arrived) ==
    SubSeq(arrived, Min(n * n, Len(arrived)) + 1, Len(arrived))

eigen_qr_multiprocess_begin == EigenBegin("multiproc")

\* top of a round that is not the last: pipe(pipeQR)
eigen_qr_multiprocess_pipe ==
    /\ InEigenStrategy /\ hpc = "multiproc" /\ spc = "loop"
    /\ wk.iter < max_iter
    /\ ~is_converged(wk.A, wk.n, tol)
    /\ \/ /\ pipes' = Ext(pipes, wk.iter, [r |-> TRUE, w |-> TRUE])
          /\ chan' = Ext(chan, wk.iter, <<>>)
          /\ spc' = "fork"
          /\ Bump("multiproc", "pipe")
          /\ UNCHANGED <<res, hpc, wk>>
       \/ \* pipe() == -1: free the buffers; return NULL
          /\ StrategyReturns(NULL)
          /\ UNCHANGED <<pipes, chan, effects>>
    /\ UNCHANGED <<freed, entry, col, operation, m1, m2, max_iter, tol, metrics, ret, out_det, procs>>

\* fork(); in the parent: close(pipeQR[1]). The child works on its copy of A:
\* qr is what its qr_decompose_single(A, Q, R, n) yields
eigen_qr_multiprocess_fork ==
    /\ InEigenStrategy /\ hpc = "multiproc" /\ spc = "fork"
    /\ \/ /\ procs' = Ext(procs, wk.iter, [st |-> "running", waited |-> FALSE, A |-> wk.A,
                                           qr |-> qr_decompose_single(wk.A, wk.n),
                                           wends |-> InheritedWriteEnds])
          /\ pipes' = [pipes EXCEPT ![wk.iter].w = FALSE]
          /\ spc' = "readQ"
          /\ Bump("multiproc", "fork")
          /\ UNCHANGED <<res, hpc, wk>>
       \/ \* fork() == -1: free the buffers; return NULL
          /\ StrategyReturns(NULL)
          /\ UNCHANGED <<pipes, procs, effects>>
    /\ UNCHANGED <<freed, entry, col, operation, m1, m2, max_iter, tol, metrics, ret, out_det, chan>>

\* child: if (!qr_decompose_single(A, Q, R, n)) _exit(1)
eigen_child_breakdown ==
    /\ InEigenStrategy
    /\ \E u \in DOMAIN procs :
         /\ procs[u].st = "running"
         /\ ~procs[u].qr.ok
         /\ procs' = [procs EXCEPT ![u].st = "exited1"]
    /\ UNCHANGED <<freed, entry, col, operation, m1, m2, max_iter, tol, metrics, hpc, spc, res, ret, out_det,
                   wk, pipes, chan, effects>>

\* child: write(pipeQR[1], Q, bytes)
eigen_child_write_Q ==
    /\ InEigenStrategy
    /\ \E u \in DOMAIN procs :
         /\ procs[u].st = "running"
         /\ procs[u].qr.ok
         /\ chan' = [chan EXCEPT ![u] = @ \o Flat(procs[u].qr.Q, m1.rows)]
         /\ procs' = [procs EXCEPT ![u].st = "wroteQ"]
    /\ UNCHANGED <<freed, entry, col, operation, m1, m2, max_iter, tol, metrics, hpc, spc, res, ret, out_det,
                   wk, pipes, effects>>

\* child: write(pipeQR[1], Q, bytes) when the pipe takes the buffer in two
\* pieces (bytes is more than PIPE_BUF, or more than the room left in the
\* pipe): the first c doubles are in the pipe and the child is still in write().
\* Followed for the worker of the last round the client allows, after which
\* no decomposition is computed from what the parent read.
eigen_child_write_Q_part ==
    /\ InEigenStrategy
    /\ \E u \in DOMAIN procs :
         /\ procs[u].st = "running"
         /\ u + 1 = max_iter
         /\ procs[u].qr.ok
         /\ \E c \in 1..(m1.rows * m1.rows - 1) :
              /\ chan' = [chan EXCEPT ![u] =
                             @ \o SubSeq(Flat(procs[u].qr.Q, m1.rows), 1, c)]
              /\ procs' = [procs EXCEPT ![u] = [st |-> "partQ", waited |-> @.waited, A |-> @.A, qr |-> @.qr, wends |-> @.wends, sent |-> c]]
    /\ UNCHANGED <<freed, entry, col, operation, m1, m2, max_iter, tol, metrics, hpc, spc, res, ret, out_det,
                   wk, pipes, effects>>

\* child: the same write() puts the rest of Q into the pipe and returns
eigen_child_write_Q_rest ==
    /\ InEigenStrategy
    /\ \E u \in DOMAIN procs :
         /\ procs[u].st = "partQ"
         /\ chan' = [chan EXCEPT ![u] =
                        @ \o SubSeq(Flat(procs[u].qr.Q, m1.rows),
                                    procs[u].sent + 1, m1.rows * m1.rows)]
         /\ procs' = [procs EXCEPT ![u] = [st |-> "wroteQ", waited |-> @.waited, A |-> @.A, qr |-> @.qr, wends |-> @.wends]]
    /\ UNCHANGED <<freed, entry, col, operation, m1, m2, max_iter, tol, metrics, hpc, spc, res, ret, out_det,
                   wk, pipes, effects>>

\* child: write(pipeQR[1], R, bytes)
eigen_child_write_R ==
    /\ InEigenStrategy
    /\ \E u \in DOMAIN procs :
         /\ procs[u].st = "wroteQ"
         /\ chan' = [chan EXCEPT ![u] = @ \o Flat(procs[u].qr.R, m1.rows)]
         /\ procs' = [procs EXCEPT ![u].st = "wrote"]
    /\ UNCHANGED <<freed, entry, col, operation, m1, m2, max_iter, tol, metrics, hpc, spc, res, ret, out_det,
                   wk, pipes, effects>>

\* child: close(pipeQR[1]); _exit(0)
eigen_child_exit ==
    /\ InEigenStrategy
    /\ \E u \in DOMAIN procs :
         /\ procs[u].st = "wrote"
         /\ procs' = [procs EXCEPT ![u].st = "exited0"]
    /\ UNCHANGED <<freed, entry, col, operation, m1, m2, max_iter, tol, metrics, hpc, spc, res, ret, out_det,
                   wk, pipes, chan, effects>>

\* the child is terminated by a signal before it finished writing
eigen_child_killed ==
    /\ InEigenStrategy
    /\ \E u \in DOMAIN procs :
         /\ procs[u].st \in {"running", "partQ", "wroteQ"}
         /\ procs' = [procs EXCEPT ![u] = [st |-> "killed", waited |-> @.waited, A |-> @.A, qr |-> @.qr, wends |-> @.wends]]
    /\ UNCHANGED <<freed, entry, col, operation, m1, m2, max_iter, tol, metrics, hpc, spc, res, ret, out_det,
                   wk, pipes, chan, effects>>

\* parent: read(pipeQR[0], Q, bytes)
eigen_qr_multiprocess_read_Q ==
    /\ InEigenStrategy /\ hpc = "multiproc" /\ spc = "readQ"
    /\ (Len(chan[wk.iter]) > 0 \/ EndOfFile(wk.iter))
    /\ wk' = [wk EXCEPT !.Q = ReadInto(wk.Q, wk.n, chan[wk.iter])]
    /\ chan' = [chan EXCEPT ![wk.iter] = LeftAfterRead(wk.n, @)]
    /\ effects' = [effects EXCEPT !.multiproc.read = @ + (IF Len(chan[wk.iter]) > 0 THEN 1 ELSE 0)]
    /\ spc' = "readR"
    /\ UNCHANGED <<freed, entry, col, operation, m1, m2, max_iter, tol, metrics, hpc, res, ret, out_det,
                   pipes, procs>>

\* parent: read(pipeQR[0], R, bytes); close(pipeQR[0])
eigen_qr_multiprocess_read_R ==
    /\ InEigenStrategy /\ hpc = "multiproc" /\ spc = "readR"
    /\ (Len(chan[wk.iter]) > 0 \/ EndOfFile(wk.iter))
    /\ wk' = [wk EXCEPT !.R = ReadInto(wk.R, wk.n, chan[wk.iter])]
    /\ chan' = [chan EXCEPT ![wk.iter] = LeftAfterRead(wk.n, @)]
    /\ effects' = [effects EXCEPT !.multiproc.read = @ + (IF Len(chan[wk.iter]) > 0 THEN 1 ELSE 0)]
    /\ pipes' = [pipes EXCEPT ![wk.iter].r = FALSE]
    /\ spc' = "wait"
    /\ UNCHANGED <<freed, entry, col, operation, m1, m2, max_iter, tol, metrics, hpc, res, ret, out_det,
                   procs>>

\* parent: waitpid(pid, NULL, 0); V = V * Q; A = R * Q; ++iter
eigen_qr_multiprocess_wait ==
    /\ InEigenStrategy /\ hpc = "multiproc" /\ spc = "wait"
    /\ Terminated(procs[wk.iter].st)
    /\ procs' = [procs EXCEPT ![wk.iter].waited = TRUE]
    /\ wk' = [wk EXCEPT !.V = matmul_single(wk.V, wk.Q, wk.n),
                        !.A = matmul_single(wk.R, wk.Q, wk.n),
                        !.iter = @ + 1]
    /\ spc' = "loop"
    /\ Bump("multiproc", "cell")
    /\ UNCHANGED <<freed, entry, col, operation, m1, m2, max_iter, tol, metrics, hpc, res, ret, out_det,
                   pipes, chan>>

eigen_qr_multiprocess_end == EigenEnd("multiproc")

-----------------------------------------------------------------------------
(* run_eigen_comparison *)

\* fastest_time starts at 1e99 when res1 is NULL: more than any elapsed time
FastestSentinel == MaxTime + 1

\* a selection that compares the three times without looking at the results
EigenFastestUnguarded(mt, r) ==
    LET t1 == mt.single_thread_time
        c2 == IF mt.openmp_time < t1 THEN "openmp" ELSE "single"
        t2 == IF mt.openmp_time < t1 THEN mt.openmp_time ELSE t1
    IN  IF mt.multiprocess_time < t2 THEN "multiproc" ELSE c2

\* "Choose the fastest result that succeeded"
EigenFastest(mt, r) ==
    LET t1 == IF r.single # NULL THEN mt.single_thread_time ELSE FastestSentinel
        c2 == IF r.openmp # NULL /\ mt.openmp_time < t1 THEN "openmp" ELSE "single"
        t2 == IF r.openmp # NULL /\ mt.openmp_time < t1 THEN mt.openmp_time ELSE t1
    IN  IF r.multiproc # NULL /\ mt.multiprocess_time < t2 THEN "multiproc" ELSE c2

\* if (!m || !metrics || m->rows != m->cols) return NULL
run_eigen_comparison_check ==
    /\ InEigen /\ hpc = "check"
    /\ IF m1.rows # m1.cols
       THEN ret' = NULL /\ hpc' = "done"
       ELSE ret' = ret /\ hpc' = "single"
    /\ UNCHANGED <<freed, entry, col, operation, m1, m2, max_iter, tol, metrics, spc, res, out_det,
                   wk, pipes, procs, chan, effects>>

run_eigen_comparison_select ==
    /\ InEigen /\ hpc = "select"
    /\ LET f == EigenFastest(metrics, res)
       IN  /\ freed' = {s \in {"single", "openmp", "multiproc"} : res[s] # NULL /\ s # f}
           /\ ret' = res[f]
           /\ wk' = [fastest |-> f]
    /\ hpc' = "done"
    /\ UNCHANGED <<entry, col, operation, m1, m2, max_iter, tol, metrics, spc, res, out_det,
                   pipes, procs, chan, effects>>

-----------------------------------------------------------------------------
(* The MatrixCollection: create_collection, find_matrix, add_matrix,        *)
(* remove_matrix (matrix_utils.c)                                           *)

\* c->capacity = 8;
INITIAL_CAPACITY == 8

\* The client stops after MaxCalls calls of add_matrix and remove_matrix.
MaxCalls == 5

\* names the client gives its matrices, and one name it never gives
MatrixNames == {"A", "B"}
AbsentName == "Z"

\* Matrix objects of the client: two allocations may carry the same name
ClientMatrices == [name : MatrixNames, id : 1..2]

\* the matrices a client has stored before the calls that are followed here
FillerNames == <<"F1", "F2", "F3", "F4", "F5", "F6", "F7">>
Filler(k) == [name |-> FillerNames[k], id |-> 0]

\* a slot of items that realloc added and nothing has written yet
INDETERMINATE == [indeterminate |-> TRUE]

\* calloc(1, sizeof(MatrixCollection)); capacity = 8; items = calloc(capacity, ...)
create_collection ==
    [items |-> [i \in 0..(INITIAL_CAPACITY - 1) |-> NULL],
     count |-> 0,
     capacity |-> INITIAL_CAPACITY]

\* the collection after add_matrix of Filler(1), ..., Filler(k) on a new one
Prefilled(k) ==
    [create_collection EXCEPT
        !.items = [i \in 0..(INITIAL_CAPACITY - 1) |->
                      IF i < k THEN Filler(i + 1) ELSE NULL],
        !.count = k]

\* for (int i = 0; i < c->count; i++) if (strcmp(c->items[i]->name, name) == 0) ...
\* the first index from i on whose matrix has the name, c->count when none has
\* a const char * that points at the characters s (NULL is the other value)
Str(s) == [str |-> s]

RECURSIVE FindIndex(_, _, _)
FindIndex(c, name, i) ==
    IF i >= c.count THEN c.count
    ELSE IF c.items[i].name = name.str THEN i
    ELSE FindIndex(c, name, i + 1)

find_matrix(c, name) ==
    IF c = NULL \/ name = NULL THEN NULL
    ELSE LET i == FindIndex(c, name, 0)
         IN IF i < c.count THEN c.items[i] ELSE NULL

\* realloc(c->items, newcap * sizeof(Matrix*)): the old slots keep their
\* contents, the new ones hold nothing yet
Realloc(items, capacity, newcap) ==
    [i \in 0..(newcap - 1) |-> IF i < capacity THEN items[i] ELSE INDETERMINATE]

\* an add_matrix that stores the matrix without looking for its name
add_matrix_without_duplicate_check ==
    /\ entry = "MatrixCollection"
    /\ wk.calls < MaxCalls
    /\ \E m \in (ClientMatrices \ freed) \cup {NULL}, realloc_ok \in BOOLEAN :
          /\ wk' = [fn |-> "add_matrix", arg |-> m, calls |-> wk.calls + 1]
          /\ IF m = NULL
             THEN ret' = IntRet(0) /\ col' = col
             ELSE IF col.count >= col.capacity /\ ~realloc_ok
             THEN ret' = IntRet(0) /\ col' = col
             ELSE LET newcap == col.capacity * 2
                      grown == IF col.count >= col.capacity
                               THEN [col EXCEPT
                                        !.items = Realloc(col.items, col.capacity, newcap),
                                        !.capacity = newcap]
                               ELSE col
                  IN /\ col' = [grown EXCEPT !.items[grown.count] = m,
                                             !.count = @ + 1]
                     /\ ret' = IntRet(1)
    /\ UNCHANGED <<entry, operation, m1, m2, max_iter, tol, metrics, hpc, spc, res,
                   out_det, pipes, procs, chan, effects, freed>>

\* int add_matrix(MatrixCollection *c, Matrix *m)
add_matrix ==
    /\ entry = "MatrixCollection"
    /\ wk.calls < MaxCalls
    /\ \E m \in (ClientMatrices \ freed) \cup {NULL}, realloc_ok \in BOOLEAN :
          /\ wk' = [fn |-> "add_matrix", arg |-> m, calls |-> wk.calls + 1]
          /\ IF m = NULL
             THEN ret' = IntRet(0) /\ col' = col
             ELSE IF find_matrix(col, Str(m.name)) # NULL
             THEN ret' = IntRet(0) /\ col' = col      \* duplicate
             ELSE IF col.count >= col.capacity /\ ~realloc_ok
             THEN ret' = IntRet(0) /\ col' = col      \* if (!tmp) return 0;
             ELSE LET newcap == col.capacity * 2
                      grown == IF col.count >= col.capacity
                               THEN [col EXCEPT
                                        !.items = Realloc(col.items, col.capacity, newcap),
                                        !.capacity = newcap]
                               ELSE col
                  IN /\ col' = [grown EXCEPT !.items[grown.count] = m,
                                             !.count = @ + 1]
                     /\ ret' = IntRet(1)
    /\ UNCHANGED <<entry, operation, m1, m2, max_iter, tol, metrics, hpc, spc, res,
                   out_det, pipes, procs, chan, effects, freed>>

\* for (int j = i + 1; j < c->count; j++) c->items[j-1] = c->items[j];
\* the last used slot keeps the pointer it held
ShiftLeft(c, i) ==
    [j \in DOMAIN c.items |->
        IF j >= i /\ j + 1 < c.count THEN c.items[j + 1] ELSE c.items[j]]

\* int remove_matrix(MatrixCollection *c, const char *name)
remove_matrix ==
    /\ entry = "MatrixCollection"
    /\ wk.calls < MaxCalls
    /\ \E name \in {Str(s) : s \in MatrixNames \cup {FillerNames[1], FillerNames[2],
                                                    AbsentName}} \cup {NULL} :
          /\ wk' = [fn |-> "remove_matrix", arg |-> name, calls |-> wk.calls + 1]
          /\ IF name = NULL
             THEN ret' = IntRet(0) /\ col' = col /\ freed' = freed
             ELSE LET i == FindIndex(col, name, 0)
                  IN IF i < col.count
                     THEN /\ freed' = freed \cup {col.items[i]}   \* free_matrix
                          /\ col' = [col EXCEPT !.items = ShiftLeft(col, i),
                                                !.count = @ - 1]
                          /\ ret' = IntRet(1)
                     ELSE ret' = IntRet(0) /\ col' = col /\ freed' = freed
    /\ UNCHANGED <<entry, operation, m1, m2, max_iter, tol, metrics, hpc, spc, res,
                   out_det, pipes, procs, chan, effects>>

-----------------------------------------------------------------------------
(* The client's call *)

\* PerformanceMetrics metrics; is declared without an initialiser by the callers
StaleMetrics ==
    [single_thread_time : Times, openmp_time : Times, multiprocess_time : Times]

InitCommon ==
    /\ res = [single |-> NULL, openmp |-> NULL, multiproc |-> NULL]
    /\ ret = PENDING
    /\ out_det = D(0)
    /\ spc = "idle"
    /\ wk = NoFrame
    /\ pipes = NoUnits /\ procs = NoUnits /\ chan = NoUnits
    /\ effects = [single |-> NoEffects, openmp |-> NoEffects, multiproc |-> NoEffects,
                  plain |-> NoEffects]
    /\ freed = {}
    /\ col = create_collection

InitArith ==
    /\ entry = "run_operation_comparison"
    /\ operation \in ArithOps
    /\ \E sa \in Shapes, sb \in Shapes : m1 = OperandA(sa) /\ m2 = OperandB(sb)
    /\ metrics \in StaleMetrics
    /\ max_iter = 0 /\ tol = D(0)
    /\ hpc = "single"
    /\ InitCommon

InitPlainArith ==
    /\ entry \in {"add_matrices", "subtract_matrices", "multiply_matrices"}
    /\ operation = "none"
    /\ \E sa \in Shapes, sb \in Shapes : m1 = OperandA(sa) /\ m2 = OperandB(sb)
    /\ metrics = [single_thread_time |-> 0, openmp_time |-> 0, multiprocess_time |-> 0]
    /\ max_iter = 0 /\ tol = D(0)
    /\ hpc = "plain"
    /\ InitCommon

InitDet ==
    /\ entry = "run_determinant_comparison"
    /\ operation = "none"
    /\ m1 \in DetInputs /\ m2 = m1
    /\ metrics \in StaleMetrics
    /\ max_iter = 0 /\ tol = D(0)
    /\ hpc = "check"
    /\ res = [single |-> [rc |-> 0, det |-> D(0)], openmp |-> [rc |-> 0, det |-> D(0)],
              multiproc |-> [rc |-> 0, det |-> D(0)]]
    /\ ret = PENDING
    /\ out_det = D(0)
    /\ spc = "idle"
    /\ wk = NoFrame
    /\ pipes = NoUnits /\ procs = NoUnits /\ chan = NoUnits
    /\ effects = [single |-> NoEffects, openmp |-> NoEffects, multiproc |-> NoEffects,
                  plain |-> NoEffects]
    /\ freed = {}
    /\ col = create_collection

\* the client's double det holds whatever was there before the call
InitPlainDet ==
    /\ entry = "determinant_gauss_partial_pivot"
    /\ operation = "none"
    /\ m1 \in DetInputs /\ m2 = m1
    /\ metrics = [single_thread_time |-> 0, openmp_time |-> 0, multiprocess_time |-> 0]
    /\ max_iter = 0 /\ tol = D(0)
    /\ hpc = "plain"
    /\ res = [single |-> NULL, openmp |-> NULL, multiproc |-> NULL]
    /\ ret = PENDING
    /\ out_det \in Garbage
    /\ spc = "idle"
    /\ wk = NoFrame
    /\ pipes = NoUnits /\ procs = NoUnits /\ chan = NoUnits
    /\ effects = [single |-> NoEffects, openmp |-> NoEffects, multiproc |-> NoEffects,
                  plain |-> NoEffects]
    /\ freed = {}
    /\ col = create_collection

\* a client calls one determinant strategy itself; det and the time slot hold
\* whatever they held before
InitDetStrategy ==
    /\ entry \in DirectDet
    /\ operation = "none"
    /\ m1 \in DetInputs /\ m2 = m1
    /\ metrics = [single_thread_time |-> 0, openmp_time |-> 0, multiprocess_time |-> 0]
    /\ max_iter = 0 /\ tol = D(0)
    /\ hpc = StrategyOf(entry)
    /\ \E g \in Garbage :
          res = [single |-> [rc |-> -1, det |-> g], openmp |-> [rc |-> -1, det |-> g],
                 multiproc |-> [rc |-> -1, det |-> g]]
    /\ ret = PENDING
    /\ out_det = D(0)
    /\ spc = "idle"
    /\ wk = NoFrame
    /\ pipes = NoUnits /\ procs = NoUnits /\ chan = NoUnits
    /\ effects = [single |-> NoEffects, openmp |-> NoEffects, multiproc |-> NoEffects,
                  plain |-> NoEffects]
    /\ freed = {}
    /\ col = create_collection

\* a client calls one eigen strategy itself
InitEigenStrategy ==
    /\ entry \in DirectEigen
    /\ operation = "none"
    /\ m1 \in EigenInputs /\ m2 = m1
    /\ metrics = [single_thread_time |-> 0, openmp_time |-> 0, multiprocess_time |-> 0]
    /\ max_iter \in 0..MaxIter /\ tol \in TolSet
    /\ hpc = StrategyOf(entry)
    /\ InitCommon

InitEigen ==
    /\ entry = "run_eigen_comparison"
    /\ operation = "none"
    /\ m1 \in EigenInputs /\ m2 = m1
    /\ metrics \in StaleMetrics
    /\ max_iter \in 0..MaxIter /\ tol \in TolSet
    /\ hpc = "check"
    /\ InitCommon

\* MatrixCollection *collection = create_collection(); followed by the calls
\* of add_matrix that filled it so far
InitCollection ==
    /\ entry = "MatrixCollection"
    /\ operation = "none"
    /\ m1 = OperandA(<<1, 1>>) /\ m2 = m1
    /\ metrics = [single_thread_time |-> 0, openmp_time |-> 0, multiprocess_time |-> 0]
    /\ max_iter = 0 /\ tol = D(0)
    /\ hpc = "collection"
    /\ res = [single |-> NULL, openmp |-> NULL, multiproc |-> NULL]
    /\ ret = PENDING
    /\ out_det = D(0)
    /\ spc = "idle"
    /\ wk = [fn |-> "none", arg |-> NULL, calls |-> 0]
    /\ pipes = NoUnits /\ procs = NoUnits /\ chan = NoUnits
    /\ effects = [single |-> NoEffects, openmp |-> NoEffects, multiproc |-> NoEffects,
                  plain |-> NoEffects]
    /\ freed = {}
    /\ \E k \in {0, INITIAL_CAPACITY - 1} : col = Prefilled(k)

Init ==
    \/ InitArith \/ InitPlainArith
    \/ InitDet \/ InitPlainDet \/ InitDetStrategy
    \/ InitEigen \/ InitEigenStrategy
    \/ InitCollection

Next ==
    \/ matrices_single
    \/ matrices_openmp_begin
    \/ matrices_openmp_iteration
    \/ matrices_openmp_end
    \/ matrices_multiprocess_begin
    \/ matrices_multiprocess_pipe
    \/ matrices_multiprocess_fork
    \/ matrices_child_write
    \/ matrices_child_exit
    \/ matrices_child_killed
    \/ matrices_multiprocess_read
    \/ matrices_multiprocess_wait
    \/ matrices_multiprocess_end
    \/ run_operation_comparison_select
    \/ plain_matrices
    \/ determinant_gauss_partial_pivot_begin
    \/ determinant_gauss_partial_pivot_step
    \/ determinant_gauss_partial_pivot_end
    \/ run_determinant_comparison_check
    \/ determinant_single_begin
    \/ determinant_single_step
    \/ determinant_single_end
    \/ determinant_openmp_begin
    \/ determinant_openmp_pivot
    \/ determinant_openmp_row
    \/ determinant_openmp_join
    \/ determinant_openmp_end
    \/ determinant_multiprocess_begin
    \/ determinant_multiprocess_pivot
    \/ determinant_multiprocess_pipe
    \/ determinant_multiprocess_fork
    \/ determinant_child_write
    \/ determinant_child_exit
    \/ determinant_child_nomem
    \/ determinant_child_killed
    \/ determinant_multiprocess_read
    \/ determinant_multiprocess_wait
    \/ determinant_multiprocess_end
    \/ run_determinant_comparison_select
    \/ run_eigen_comparison_check
    \/ eigen_qr_single_begin
    \/ eigen_qr_single_round
    \/ eigen_qr_single_end
    \/ eigen_qr_openmp_begin
    \/ eigen_qr_openmp_round
    \/ eigen_qr_openmp_end
    \/ eigen_qr_multiprocess_begin
    \/ eigen_qr_multiprocess_pipe
    \/ eigen_qr_multiprocess_fork
    \/ eigen_child_breakdown
    \/ eigen_child_write_Q
    \/ eigen_child_write_Q_part
    \/ eigen_child_write_Q_rest
    \/ eigen_child_write_R
    \/ eigen_child_exit
    \/ eigen_child_killed
    \/ eigen_qr_multiprocess_read_Q
    \/ eigen_qr_multiprocess_read_R
    \/ eigen_qr_multiprocess_wait
    \/ eigen_qr_multiprocess_end
    \/ run_eigen_comparison_select
    \/ add_matrix
    \/ remove_matrix

Spec == Init /\ [][Next]_vars

-----------------------------------------------------------------------------
(* The process-isolated functions with their scheduling: the parent runs    *)
(* whenever it is not blocked in read() or waitpid(), and every forked      *)
(* worker goes on until it has written its payload or has exited.           *)

\* the clients of the process-isolated functions: run_operation_comparison
\* (the only caller of the element-wise functions here), determinant_multiprocess
\* and eigen_qr_multiprocess
InitProcessIsolated ==
    \/ InitArith
    \/ InitDetStrategy /\ entry = "determinant_multiprocess"
    \/ InitEigenStrategy /\ entry = "eigen_qr_multiprocess"

\* a step of the calling process
ParentStep ==
    \/ matrices_single
    \/ matrices_openmp_begin
    \/ matrices_openmp_iteration
    \/ matrices_openmp_end
    \/ matrices_multiprocess_begin
    \/ matrices_multiprocess_pipe
    \/ matrices_multiprocess_fork
    \/ matrices_multiprocess_read
    \/ matrices_multiprocess_wait
    \/ matrices_multiprocess_end
    \/ run_operation_comparison_select
    \/ determinant_multiprocess_begin
    \/ determinant_multiprocess_pivot
    \/ determinant_multiprocess_pipe
    \/ determinant_multiprocess_fork
    \/ determinant_multiprocess_read
    \/ determinant_multiprocess_wait
    \/ determinant_multiprocess_end
    \/ eigen_qr_multiprocess_begin
    \/ eigen_qr_multiprocess_pipe
    \/ eigen_qr_multiprocess_fork
    \/ eigen_qr_multiprocess_read_Q
    \/ eigen_qr_multiprocess_read_R
    \/ eigen_qr_multiprocess_wait
    \/ eigen_qr_multiprocess_end

\* a step of a forked worker
WorkerStep ==
    \/ matrices_child_write
    \/ matrices_child_exit
    \/ matrices_child_killed
    \/ determinant_child_write
    \/ determinant_child_exit
    \/ determinant_child_nomem
    \/ determinant_child_killed
    \/ eigen_child_breakdown
    \/ eigen_child_write_Q
    \/ eigen_child_write_Q_part
    \/ eigen_child_write_Q_rest
    \/ eigen_child_write_R
    \/ eigen_child_exit
    \/ eigen_child_killed

NextProcessIsolated == ParentStep \/ WorkerStep

SpecProcessIsolated ==
    /\ InitProcessIsolated
    /\ [][NextProcessIsolated]_vars
    /\ WF_vars(ParentStep)
    /\ WF_vars(WorkerStep)

-----------------------------------------------------------------------------
(* Properties of the comparison harnesses and of the strategies *)

StrategySet == {"single", "openmp", "multiproc"}

InHarness == InArith \/ InDet \/ InEigen

\* strategy s has returned success to the harness
Succeeded(s) == IF InDet THEN res[s].rc = 1 ELSE res[s] # NULL

SucceededSet == {s \in StrategySet : Succeeded(s)}

ElapsedOf(s) == metrics[TimeSlot(s)]

\* the harness has made its choice
Selected == hpc = "done" /\ "fastest" \in DOMAIN wk

\* the multiprocess strategy of the harness has returned
MultiprocessReturned == InHarness /\ hpc \in {"select", "done"}

\* C1: run_operation_comparison and run_determinant_comparison return the
\* result of a strategy that succeeded, whose elapsed time is minimal among
\* the strategies that succeeded; a failed strategy is never the one chosen.
C1_ReturnsFastestSucceeded ==
    ((InArith \/ InDet) /\ Selected /\ SucceededSet # {}) =>
        /\ wk.fastest \in SucceededSet
        /\ \A s \in SucceededSet : ElapsedOf(wk.fastest) <= ElapsedOf(s)
        /\ IF InDet THEN out_det = res[wk.fastest].det
                    ELSE ret = Renamed(res[wk.fastest])

\* C2: run_eigen_comparison returns the result of a strategy that succeeded,
\* whose elapsed time is minimal among those that succeeded, and NULL when
\* none succeeded.
C2_EigenReturnsFastestSucceeded ==
    (InEigen /\ hpc = "done") =>
        IF SucceededSet = {}
        THEN ret = NULL
        ELSE /\ Selected
             /\ wk.fastest \in SucceededSet
             /\ \A s \in SucceededSet : ElapsedOf(wk.fastest) <= ElapsedOf(s)
             /\ ret = res[wk.fastest]
             /\ ret # NULL

\* a failed eigen strategy left the smallest time slot and was not chosen
C2_Witness ==
    /\ InEigen /\ Selected
    /\ ret # NULL
    /\ \E s \in StrategySet \ SucceededSet : ElapsedOf(s) < ElapsedOf(wk.fastest)

\* C3: when none of the three strategies succeeds, run_operation_comparison
\* and run_eigen_comparison return NULL and run_determinant_comparison
\* returns 0.
C3_NoneSucceededFails ==
    (InHarness /\ hpc = "done" /\ SucceededSet = {}) =>
        IF InDet THEN ret = IntRet(0) ELSE ret = NULL

\* the operands of the arithmetic call do not fit the operation
ShapesDiffer ==
    IF (IF InArith THEN operation ELSE OpOf(entry)) = "Multiplication"
    THEN m1.cols # m2.rows
    ELSE m1.rows # m2.rows \/ m1.cols # m2.cols

\* C4: on a shape mismatch no strategy function and no plain function
\* allocates, creates a pipe, forks or computes a cell; each returns NULL and
\* so does run_operation_comparison.
C4_MismatchDoesNothing ==
    ((InArith \/ InPlainArith) /\ ShapesDiffer) =>
        /\ \A s \in StrategySet \cup {"plain"} : effects[s] = NoEffects
        /\ pipes = NoUnits /\ procs = NoUnits /\ chan = NoUnits
        /\ \A s \in StrategySet : res[s] = NULL
        /\ (wk = NoFrame \/ "fastest" \in DOMAIN wk)
        /\ (hpc = "done" => ret = NULL)

\* the harness has run all three strategies on mismatched operands
C4_Witness == InArith /\ ShapesDiffer /\ hpc = "done"

\* two results of the same operation agree
SameResult(a, b) ==
    IF InDet THEN a.det = b.det
    ELSE IF InArith THEN a.rows = b.rows /\ a.cols = b.cols /\ a.data = b.data
    ELSE a = b

\* C5: when all three strategies succeed, the OpenMP and the multiprocess
\* result equal the sequential one.
C5_ParallelEqualsSequential ==
    (MultiprocessReturned /\ SucceededSet = StrategySet) =>
        \A s \in {"openmp", "multiproc"} : SameResult(res[s], res["single"])

\* C6: a successful process-isolated operation has forked one worker per
\* result cell and read one payload per result cell, and cell (i, j) holds
\* the value computed by the worker created for (i, j).
C6_OneWorkerAndPayloadPerCell ==
    (InArith /\ MultiprocessReturned /\ res["multiproc"] # NULL) =>
        LET total == ResultRows(operation, m1, m2) * ResultCols(operation, m1, m2)
        IN  /\ effects["multiproc"].fork = total
            /\ effects["multiproc"].read = total
            /\ \A u \in DOMAIN procs :
                  res["multiproc"].data[procs[u].cell[1]][procs[u].cell[2]]
                     = CellValue(operation, m1, m2, procs[u].cell[1], procs[u].cell[2])

\* C7: when a process-isolated function has returned, every worker it forked
\* has been waited for and every pipe end of the parent is closed.
C7_NothingLeftBehind ==
    MultiprocessReturned =>
        /\ \A u \in DOMAIN procs : procs[u].waited
        /\ \A u \in DOMAIN pipes : ~pipes[u].r /\ ~pipes[u].w

\* C8: when a worker exited with a non-zero status or was killed before it
\* delivered its payload, the process-isolated strategy returns failure.
C8_WorkerFailureDetected ==
    (MultiprocessReturned /\ \E u \in DOMAIN procs : procs[u].st \in {"exited1", "killed"}) =>
        ~Succeeded("multiproc")

\* C9: for a square input whose first decomposition meets a Gram-Schmidt
\* column of norm below 1e-14, every eigen strategy and run_eigen_comparison
\* return NULL.
C9_BreakdownReturnsNull ==
    (/\ InEigen /\ hpc = "done"
     /\ m1.rows = m1.cols
     /\ max_iter > 0
     /\ ~is_converged(m1.data, m1.rows, tol)
     /\ ~qr_decompose_single(m1.data, m1.rows).ok) =>
        /\ \A s \in StrategySet : res[s] = NULL
        /\ ret = NULL

\* max |A[i][k]| over i >= k is below 1e-12
ColumnBelowEps(A, n, k) ==
    \A i \in k..(n - 1) : LtScaled(Abs(A[i][k].n), A[i][k].d, PIVOT_EPS_DIGITS)

\* a determinant function is about to start elimination step k
AtEliminationStep == (InDetStrategy \/ InPlainDet) /\ spc = "loop" /\ wk.k < wk.n

C10_Step ==
    (AtEliminationStep /\ ColumnBelowEps(wk.A, wk.n, wk.k)) =>
        /\ spc' = "idle" /\ wk' = NoFrame
        /\ procs' = procs /\ pipes' = pipes /\ chan' = chan
        /\ effects' = effects
        /\ IF InPlainDet
           THEN ret' = IntRet(1) /\ out_det' = D(0)
           ELSE res'[hpc] = [rc |-> 1, det |-> D(0)] /\ hpc' = ReturnStage(hpc)

\* C10: in determinant_gauss_partial_pivot and in the three determinant
\* strategies, a step k whose pivot column is below 1e-12 from row k down
\* ends the function: it writes 0.0 and returns 1, runs no later step,
\* updates no row and forks no worker for that step.
C10_SingularStops == [][C10_Step]_vars

\* the multiprocess strategy stopped at step 1 of a 3 x 3 matrix, after the
\* two workers of step 0 and with no worker for the rows below step 1
C10_Witness ==
    /\ InDet /\ hpc = "select"
    /\ m1 = FromRows(<< <<1, 2, 3>>, <<2, 4, 7>>, <<3, 6, 1>> >>)
    /\ res["multiproc"] = [rc |-> 1, det |-> D(0)]
    /\ effects["multiproc"].fork = 2
    /\ \A u \in DOMAIN procs : procs[u].st = "exited0"

\* fabs(v) is below 1e-12
MagnitudeBelowEps(v) == LtScaled(Abs(v.n), v.d, PIVOT_EPS_DIGITS)

\* C11: in every determinant function, every pivot A[k][k] that rows are (or
\* were) divided by has a magnitude of at least 1e-12: the pivots of the
\* steps already done, the pivot of the step whose rows are being updated by
\* threads or workers, and the pivot in each worker's copy of A.
C11_DivisorPassedTest ==
    ((InDetStrategy \/ InPlainDet) /\ "A" \in DOMAIN wk) =>
        /\ \A kk \in 0..(wk.k - 1) : ~MagnitudeBelowEps(wk.A[kk][kk])
        /\ (spc \in {"region", "pipe", "fork", "collect", "wait"} =>
               ~MagnitudeBelowEps(wk.A[wk.k][wk.k]))
        /\ \A u \in DOMAIN procs :
               ~MagnitudeBelowEps(procs[u].A[procs[u].k][procs[u].k])

\* a worker has divided by a pivot that a row swap brought to the diagonal
C11_Witness ==
    /\ InDet /\ hpc = "multiproc"
    /\ m1 = FromRows(<< <<0, 1>>, <<2, 3>> >>)
    /\ \E u \in DOMAIN procs : procs[u].st = "wrote"

C12_Step ==
    ((InDetStrategy \/ InPlainDet \/ InEigenStrategy) /\ m1.rows # m1.cols) =>
        /\ hpc' = "done"
        /\ metrics' = metrics /\ out_det' = out_det
        /\ effects' = effects
        /\ pipes' = pipes /\ procs' = procs /\ chan' = chan
        /\ wk' = NoFrame
        /\ IF entry \in DirectDet
           THEN res'[hpc] = [rc |-> 0, det |-> res[hpc].det]
           ELSE IF entry \in DirectEigen
           THEN res'[hpc] = NULL
           ELSE res' = res /\ ret' = IF InEigen THEN NULL ELSE IntRet(0)

\* C12: called with a matrix that is not square, determinant_gauss_partial_pivot,
\* each determinant strategy and run_determinant_comparison return 0, and
\* each eigen strategy and run_eigen_comparison return NULL, in their first
\* step: nothing is allocated, no step runs, no worker is forked, and *out_det
\* and the time slots keep what they held.
C12_NonSquareRejected == [][C12_Step]_vars

\* determinant_multiprocess has returned from a call with a 1 x 2 matrix
C12_Witness ==
    /\ entry = "determinant_multiprocess" /\ hpc = "done"
    /\ m1.rows # m1.cols
    /\ res["multiproc"].rc = 0

\* the sum over k = 0 .. upto of A[i][k] * B[k][j], taken in increasing k
RECURSIVE PartialDot(_, _, _, _, _)
PartialDot(a, b, i, j, upto) ==
    IF upto < 0 THEN D(0)
    ELSE DAdd(PartialDot(a, b, i, j, upto - 1), DMul(a.data[i][upto], b.data[upto][j]))

\* r is the matrix the operation op defines for the operands m1 and m2
IsArithResult(r, op) ==
    /\ r.rows = m1.rows
    /\ r.cols = IF op = "Multiplication" THEN m2.cols ELSE m1.cols
    /\ DOMAIN r.data = 0..(r.rows - 1)
    /\ \A i \in 0..(r.rows - 1) :
          /\ DOMAIN r.data[i] = 0..(r.cols - 1)
          /\ \A j \in 0..(r.cols - 1) :
                r.data[i][j] = CASE op = "Addition" -> DAdd(m1.data[i][j], m2.data[i][j])
                                 [] op = "Subtraction" -> DSub(m1.data[i][j], m2.data[i][j])
                                 [] op = "Multiplication" -> PartialDot(m1, m2, i, j, m1.cols - 1)

\* C13: a matrix returned by a sequential function (the single-threaded
\* strategy functions and add_matrices, subtract_matrices, multiply_matrices)
\* has the shape of the operation and holds in every cell the sum, the
\* difference, or the dot product accumulated in increasing k.
C13_SequentialArithmetic ==
    /\ (InArith /\ res["single"] # NULL) => IsArithResult(res["single"], operation)
    /\ (InPlainArith /\ hpc = "done" /\ ret # NULL) => IsArithResult(ret, OpOf(entry))

\* multiply_matrices_single returned the product of a 1 x 2 and a 2 x 1
\* matrix, a dot product of two terms
C13_Witness ==
    /\ InArith /\ operation = "Multiplication"
    /\ res["single"] # NULL
    /\ m1.cols = 2 /\ m2.rows = 2

\* an eigen strategy is at the top of its iteration loop
AtLoopTop == InEigenStrategy /\ hpc \in StrategySet /\ spc = "loop"

C14_Step ==
    /\ InEigenStrategy =>
          \A s \in StrategySet : effects[s].cell <= max_iter /\ effects[s].fork <= max_iter
    /\ AtLoopTop =>
          /\ wk.iter <= max_iter
          /\ wk.iter = effects[hpc].cell
          /\ IF wk.iter < max_iter /\ ~is_converged(wk.A, wk.n, tol)
             THEN \* another round starts, or the strategy fails
                  spc' # "idle" \/ res'[hpc] = NULL
             ELSE \* the loop is over: a result with the rounds done
                  /\ spc' = "idle"
                  /\ res'[hpc] # NULL
                  /\ res'[hpc].iterations = wk.iter
                  /\ res'[hpc].iterations = effects'[hpc].cell

\* C14: the loop of each eigen strategy does at most max_iter QR rounds; when
\* the cap is reached or the convergence test succeeds a result is returned
\* (converged or not) whose iterations field is the number of rounds done, and
\* before that no result is returned.
C14_RoundsCapped == [][C14_Step]_vars

\* eigen_qr_multiprocess returned a result after max_iter = 2 rounds on a
\* matrix that never converges
C14_Witness ==
    /\ InEigenStrategy
    /\ m1 = FromRows(<< <<3, 4>>, <<4, -3>> >>)
    /\ max_iter = 2
    /\ res["multiproc"] # NULL
    /\ res["multiproc"].iterations = 2
    /\ \A u \in DOMAIN procs : procs[u].st = "exited0"

IsDiagonal(m) ==
    /\ m.rows = m.cols
    /\ \A i \in 0..(m.rows - 1), j \in 0..(m.cols - 1) : i # j => m.data[i][j] = D(0)

\* the diagonal of the input is what the strategy returned as eigenvalues
DiagonalReturned(s) ==
    res[s].eigenvalues = [i \in 0..(m1.rows - 1) |-> m1.data[i][i]]

\* C15: for a diagonal input every eigen strategy returns the diagonal entries
\* as eigenvalues and reports iterations = 1.
C15_DiagonalOneRound ==
    (InEigenStrategy /\ IsDiagonal(m1)) =>
        \A s \in StrategySet :
            res[s] # NULL => DiagonalReturned(s) /\ res[s].iterations = 1

\* what the strategies do for a diagonal input: the diagonal, after no round
C15_DiagonalNoRound ==
    (InEigenStrategy /\ IsDiagonal(m1)) =>
        \A s \in StrategySet :
            res[s] # NULL => DiagonalReturned(s) /\ res[s].iterations = 0

\* eigen_qr_multiprocess returned the diagonal of [[2,0],[0,3]] with no round
\* done although rounds were allowed
C15_Witness ==
    /\ InEigenStrategy
    /\ m1 = FromRows(<< <<2, 0>>, <<0, 3>> >>)
    /\ max_iter >= 1
    /\ res["multiproc"] # NULL
    /\ res["multiproc"].iterations = 0
    /\ res["multiproc"].eigenvalues = [i \in 0..1 |-> D(2 + i)]

IsIdentity(m) ==
    /\ m.rows = m.cols
    /\ \A i \in 0..(m.rows - 1), j \in 0..(m.cols - 1) :
           m.data[i][j] = IF i = j THEN D(1) ELSE D(0)

HasZeroRow(m) ==
    /\ m.rows = m.cols
    /\ \E i \in 0..(m.rows - 1) : \A j \in 0..(m.cols - 1) : m.data[i][j] = D(0)

\* the determinant the claim gives for the input, for the inputs it speaks of
ExpectedDet == IF IsIdentity(m1) THEN D(1) ELSE D(0)

\* strategy s has returned to its caller
HasReturned(s) ==
    IF entry \in DirectDet \cup DirectEigen
    THEN hpc = "done" /\ s = StrategyOf(entry)
    ELSE /\ InHarness
         /\ \/ hpc \in {"select", "done"}
            \/ s = "single" /\ hpc \in {"openmp", "multiproc"}
            \/ s = "openmp" /\ hpc = "multiproc"

\* C16: the determinant of an identity matrix is 1.0 and that of a square
\* matrix with an all-zero row is exactly 0.0, the call succeeding, for
\* determinant_gauss_partial_pivot and for each of the three strategies.
C16_IdentityAndZeroRow ==
    (IsIdentity(m1) \/ HasZeroRow(m1)) =>
        /\ (InPlainDet /\ hpc = "done") =>
               \/ ret = IntRet(1) /\ out_det = ExpectedDet
               \/ ret = IntRet(0) /\ effects["plain"].alloc = 0
        /\ InDetStrategy =>
               \A s \in StrategySet :
                   HasReturned(s) =>
                       \/ res[s].rc = 1 /\ res[s].det = ExpectedDet
                       \/ res[s].rc = 0 /\ (effects[s].alloc = 0 \/ s = "multiproc")

\* no worker of determinant_multiprocess ended without writing its row
NoWorkerLost == \A u \in DOMAIN procs : procs[u].st \notin {"exited1", "killed"}

\* the same, over the executions in which every worker wrote its row
C16_UnlessWorkerLost == NoWorkerLost => C16_IdentityAndZeroRow

-----------------------------------------------------------------------------
(* determinant_gauss_partial_pivot as a function of its input *)

\* the loop over k from step k on: the value stored through out_det
RECURSIVE DetFrom(_, _, _, _)
DetFrom(A, n, k, det_sign) ==
    IF k >= n THEN DiagProduct(A, n, 0, D(det_sign))
    ELSE LET ps == PivotStep(A, n, k, det_sign)
         IN  IF ps.singular THEN D(0)
             ELSE DetFrom(EliminateFrom(ps.A, n, k, k + 1), n, k + 1, ps.det_sign)

DetOf(m) == DetFrom(copy_matrix_contiguous(m), m.rows, 0, 1)

\* m with rows a and b exchanged
RowsExchanged(m, a, b) ==
    [m EXCEPT !.data = [i \in 0..(m.rows - 1) |->
        IF i = a THEN m.data[b] ELSE IF i = b THEN m.data[a] ELSE m.data[i]]]

\* m with c times row a added to row b
RowAdded(m, a, b, c) ==
    [m EXCEPT !.data[b] = [j \in 0..(m.cols - 1) |-> DAdd(m.data[b][j], DMul(D(c), m.data[a][j]))]]

\* the multiples of a row that are added to another
Multiples == {1, 2, -1}

RowPairs(m) == {ab \in (0..(m.rows - 1)) \X (0..(m.rows - 1)) : ab[1] # ab[2]}

\* the determinant was computed for m1 by determinant_gauss_partial_pivot
PlainDetComputed == InPlainDet /\ hpc = "done" /\ ret = IntRet(1)

Representable(v) == Fl(v) = v

\* the factor, the product and the difference that give A[i][j] at step k are
\* computed without rounding
CellRoundingFree(A, k, i, j) ==
    LET factor  == DDiv(A[i][k], A[k][k])
        product == DMul(factor, A[k][j])
    IN  /\ Representable(factor)
        /\ Representable(product)
        /\ Representable(DSub(A[i][j], product))

RECURSIVE DiagRoundingFree(_, _, _, _)
DiagRoundingFree(A, n, i, det) ==
    \/ i >= n
    \/ /\ Representable(DMul(det, A[i][i]))
       /\ DiagRoundingFree(A, n, i + 1, DMul(det, A[i][i]))

\* no operation of the elimination from step k on, nor of the final product, rounds
RECURSIVE RoundingFreeFrom(_, _, _, _)
RoundingFreeFrom(A, n, k, det_sign) ==
    IF k >= n THEN DiagRoundingFree(A, n, 0, D(det_sign))
    ELSE LET ps == PivotStep(A, n, k, det_sign)
         IN  \/ ps.singular
             \/ /\ \A i \in (k + 1)..(n - 1), j \in (k + 1)..(n - 1) :
                       CellRoundingFree(ps.A, k, i, j)
                /\ RoundingFreeFrom(EliminateFrom(ps.A, n, k, k + 1), n, k + 1, ps.det_sign)

RoundingFree(m) == RoundingFreeFrom(copy_matrix_contiguous(m), m.rows, 0, 1)

-----------------------------------------------------------------------------
\* the place of a strategy in the order Sequential, OpenMP, ProcessIsolated
Rank(s) == CASE s = "single" -> 1 [] s = "openmp" -> 2 [] s = "multiproc" -> 3

\* the successful strategies whose elapsed time is the smallest of the successful
MinimalSet == {s \in SucceededSet : \A o \in SucceededSet : ElapsedOf(s) <= ElapsedOf(o)}

\* when successful strategies tie for the smallest time the earliest of them is
\* the choice, and the choice is strictly faster than every successful
\* strategy before it
EarliestOfFastestChosen ==
    /\ Cardinality(MinimalSet) >= 2 =>
           /\ wk.fastest \in MinimalSet
           /\ \A s \in MinimalSet : Rank(wk.fastest) <= Rank(s)
    /\ \A s \in SucceededSet : Rank(s) < Rank(wk.fastest) => ElapsedOf(wk.fastest) < ElapsedOf(s)

\* C18: in the three harnesses, when two or more successful strategies have
\* equal elapsed times that are the minimum, the earliest of them in the order
\* Sequential, OpenMP, ProcessIsolated is selected; a later strategy replaces
\* the choice only when its time is strictly smaller.
C18_TiesKeepEarlier ==
    (InHarness /\ Selected) => EarliestOfFastestChosen

\* the same for run_eigen_comparison alone
C18_EigenTiesKeepEarlier ==
    (InEigen /\ Selected) => EarliestOfFastestChosen

\* the same for the selections made after all three strategies succeeded
C18_TiesKeepEarlierAllSucceeded ==
    (InHarness /\ Selected /\ SucceededSet = StrategySet) => EarliestOfFastestChosen

-----------------------------------------------------------------------------
\* the moves of a harness from one of its stages to the next
StageOrder ==
    { <<"check", "single">>, <<"single", "openmp">>, <<"openmp", "multiproc">>,
      <<"multiproc", "select">>, <<"select", "done">> }

C19_Step ==
    InHarness =>
        \* the stages follow each other in the one order, none twice, none left
        \* out (but for the input rejected by the first check)
        /\ hpc' # hpc =>
               \/ <<hpc, hpc'>> \in StageOrder
               \/ hpc = "check" /\ hpc' = "done" /\ m1.rows # m1.cols
        \* a strategy returns with its threads joined and its frame gone, and
        \* the next one starts with no worker process left to wait for
        /\ (hpc' # hpc /\ hpc \in StrategySet) =>
               /\ "pending" \in DOMAIN wk => wk.pending = {}
               /\ wk' = NoFrame /\ spc' = "idle"
               /\ hpc' \in StrategySet =>
                      \A u \in DOMAIN procs' : Terminated(procs'[u].st) /\ procs'[u].waited
        \* no worker process beside the Sequential and the OpenMP strategy
        /\ hpc \in {"check", "single", "openmp"} => DOMAIN procs = {}
        \* the choice is made by the step that follows the third return
        /\ ("fastest" \in DOMAIN wk' /\ "fastest" \notin DOMAIN wk) =>
               /\ hpc = "select" /\ hpc' = "done"
               /\ spc = "idle" /\ wk = NoFrame
        /\ "fastest" \in DOMAIN wk => hpc = "done"

\* C19: each harness calls the Sequential, the OpenMP and the ProcessIsolated
\* strategy in this order, each once; a strategy has finished, threads and
\* worker processes included, before the next one starts, and the selection
\* is made only after the three have returned.
C19_OneStrategyAtATime == [][C19_Step]_vars

\* run_operation_comparison made its choice after three successful strategies,
\* the third of which forked workers and reaped them all
C19_Witness ==
    /\ InArith /\ Selected
    /\ SucceededSet = StrategySet
    /\ DOMAIN procs # {}
    /\ \A u \in DOMAIN procs : procs[u].waited
    /\ \A s \in StrategySet : effects[s].alloc = 1

-----------------------------------------------------------------------------
\* the parent of a process-isolated function returns from the place where it
\* calls pipe() or fork(): the call failed
PipeOrForkFails ==
    /\ hpc = "multiproc" /\ spc' = "idle"
    /\ \/ spc \in {"pipe", "fork"}
       \/ /\ InEigenStrategy /\ spc = "loop"
          /\ wk.iter < max_iter /\ ~is_converged(wk.A, wk.n, tol)

\* the process-isolated function has returned a success to its caller
MultiprocessSucceeded ==
    /\ HasReturned("multiproc")
    /\ IF InDetStrategy THEN res["multiproc"].rc = 1 ELSE res["multiproc"] # NULL

C20_Step ==
    /\ PipeOrForkFails =>
           \* the failure value goes to the caller, which runs on
           /\ hpc' = ReturnStage("multiproc")
           /\ IF InDetStrategy
              THEN res'["multiproc"] = [rc |-> 0, det |-> res["multiproc"].det]
              ELSE res'["multiproc"] = NULL
           \* nothing of the unfinished computation is handed over
           /\ wk' = NoFrame
           /\ out_det' = out_det /\ metrics' = metrics /\ ret' = ret
    \* a result returned as a success had every pipe and every worker it needs
    /\ MultiprocessSucceeded =>
           /\ effects["multiproc"].pipe = effects["multiproc"].fork
           /\ \A u \in DOMAIN pipes : ~pipes[u].w
           /\ DOMAIN procs = DOMAIN pipes
           /\ InArith => effects["multiproc"].fork = res["multiproc"].rows * res["multiproc"].cols
           /\ InEigenStrategy => effects["multiproc"].fork = res["multiproc"].iterations

\* C20: when pipe() or fork() fails inside a process-isolated function, the
\* function returns its failure value (NULL, 0 for the determinant) to its
\* caller, which goes on; nothing partially computed is returned as a success.
C20_PipeForkFailureReturnsFailure == [][C20_Step]_vars

\* add/subtract/multiply_matrices_multiprocess returned NULL to the harness
\* after the fork() for its second cell failed: the first worker exists, the
\* second pipe still has both ends open
C20_Witness ==
    /\ InArith /\ hpc \in {"select", "done"}
    /\ res["multiproc"] = NULL
    /\ Cardinality(DOMAIN procs) = 1
    /\ Cardinality(DOMAIN pipes) = 2
    /\ \E u \in DOMAIN pipes : pipes[u].w

-----------------------------------------------------------------------------
\* a determinant function is eliminating on its workspace
Eliminating == (InDetStrategy \/ InPlainDet) /\ "A" \in DOMAIN wk

\* every entry below the diagonal in the columns of the completed steps is 0.0
ZeroBelowDiagonal ==
    \A c \in 0..(wk.k - 1) : \A i \in (c + 1)..(wk.n - 1) : wk.A[i][c] = D(0)

\* C21: in every determinant strategy, after step k has completed every
\* workspace entry A[i][c] with c <= k and i > c is exactly 0, and the swaps of
\* later steps keep it so.
C21_ZeroBelowDiagonal == Eliminating => ZeroBelowDiagonal

\* the same over the executions in which every worker wrote its row segment
C21_UnlessWorkerLost == (Eliminating /\ NoWorkerLost) => ZeroBelowDiagonal

-----------------------------------------------------------------------------
\* the workers that were forked and not yet reaped
Unreaped == {u \in DOMAIN procs : ~procs[u].waited}

\* every worker of the steps before wk.k was forked, read and reaped
StepsBeforeCollected ==
    \A kk \in 0..(wk.k - 1) : \A idx \in 0..(wk.n - kk - 2) :
        /\ <<kk, idx>> \in DOMAIN procs
        /\ procs[<<kk, idx>>].waited
        /\ Terminated(procs[<<kk, idx>>].st)
        /\ ~pipes[<<kk, idx>>].r

\* C22: work of different steps never overlaps. In determinant_openmp the
\* pivot search of a step starts with no row update of the step before left
\* to do; in determinant_multiprocess it starts with every worker of the
\* steps before read and reaped, and the workers alive are those of the
\* current step; in eigen_qr_multiprocess the worker of a round is reaped
\* before the convergence test of the next, so at most one QR worker exists.
C22_StepsDoNotOverlap ==
    /\ (InDetStrategy /\ hpc = "openmp" /\ spc = "loop") => wk.pending = {}
    /\ (InDetStrategy /\ hpc = "multiproc" /\ "A" \in DOMAIN wk) =>
           /\ StepsBeforeCollected
           /\ \A u \in Unreaped : u[1] = wk.k
           /\ spc = "loop" => Unreaped = {}
    /\ InEigenStrategy =>
           /\ Cardinality(Unreaped) <= 1
           /\ (hpc = "multiproc" /\ spc = "loop") =>
                  /\ Unreaped = {}
                  /\ DOMAIN procs = 0..(wk.iter - 1)

\* determinant_multiprocess is about to search the pivot of step 1 of a 3 x 3
\* matrix: the two workers of step 0 are reaped
C22_Witness ==
    /\ InDetStrategy /\ hpc = "multiproc" /\ spc = "loop"
    /\ wk.n = 3 /\ wk.k = 1
    /\ Cardinality(DOMAIN procs) = 2
    /\ Unreaped = {}

-----------------------------------------------------------------------------
\* a determinant function is about to search the pivot of step wk.k
AtPivotSearch == Eliminating /\ spc = "loop" /\ wk.k < wk.n

\* p is the smallest row index in k .. n-1 whose |A[p][k]| is maximal
LeastMaximalRow(A, n, k, p) ==
    /\ p \in k..(n - 1)
    /\ \A i \in k..(n - 1) :
         /\ ~DLt(fabs(A[p][k]), fabs(A[i][k]))
         /\ i < p => DLt(fabs(A[i][k]), fabs(A[p][k]))

\* C23: at every elimination step of every determinant function the pivot
\* row chosen is the smallest row index i >= k whose |A[i][k]| is maximal
\* among rows k .. n-1.
C23_PivotIsFirstMaximal ==
    AtPivotSearch => LeastMaximalRow(wk.A, wk.n, wk.k, PivotRow(wk.A, wk.n, wk.k))

\* a step at which a row after the chosen one has the same non-zero magnitude
C23_Witness ==
    /\ AtPivotSearch
    /\ LET p == PivotRow(wk.A, wk.n, wk.k)
       IN  /\ fabs(wk.A[p][wk.k]) # D(0)
           /\ \E i \in (p + 1)..(wk.n - 1) : fabs(wk.A[i][wk.k]) = fabs(wk.A[p][wk.k])

-----------------------------------------------------------------------------
\* A[0][0] * A[1][1] * ... * A[n-1][n-1], multiplied from the left
RECURSIVE DiagonalProduct(_, _)
DiagonalProduct(A, n) ==
    IF n = 0 THEN D(1) ELSE FMul(DiagonalProduct(A, n - 1), A[n - 1][n - 1])

\* the value the returning determinant function stored through out_det
StoredDet == IF InPlainDet THEN out_det' ELSE res'[hpc].det

\* one step of a determinant function, for the sign: it starts at +1, a step
\* that goes on eliminating after the pivot search of step k flips it exactly
\* when the pivot row is not k, and then row k holds the old pivot row; no
\* other step changes it; the function that leaves the loop with k = n stores
\* the sign times the product of the diagonal
C24_Step ==
    /\ (~Eliminating /\ Eliminating') => wk'.det_sign = 1
    /\ (Eliminating /\ Eliminating') =>
          /\ wk'.det_sign \in {1, -1}
          /\ IF AtPivotSearch
             THEN LET p == PivotRow(wk.A, wk.n, wk.k)
                  IN  /\ wk'.det_sign = IF p # wk.k THEN -wk.det_sign ELSE wk.det_sign
                      /\ \A j \in wk.k..(wk.n - 1) : wk'.A[wk.k][j] = wk.A[p][j]
             ELSE wk'.det_sign = wk.det_sign
    /\ (Eliminating /\ spc = "loop" /\ wk.k = wk.n /\ ~Eliminating') =>
          StoredDet = DMul(D(wk.det_sign), DiagonalProduct(wk.A, wk.n))

\* C24: throughout elimination the sign multiplier is +1 or -1 and is -1
\* raised to the number of row swaps so far: a swap and sign flip happens at
\* step k exactly when the chosen pivot row differs from k; on a run that is
\* not singular the value written to *out_det is that sign times the product
\* of the diagonal entries of the final workspace.
C24_SignCountsSwaps == [][C24_Step]_vars

\* an elimination that swapped once is about to multiply the diagonal of a
\* matrix of order 2 or more
C24_Witness ==
    /\ Eliminating /\ spc = "loop"
    /\ wk.k = wk.n /\ wk.n >= 2
    /\ wk.det_sign = -1

-----------------------------------------------------------------------------
\* C25: every strategy of every operation, and every harness, leaves its
\* input matrices unchanged (name, rows, cols and every entry), on success
\* and on failure: no step of any of them writes to an operand.
C25_InputsUnchanged == [][m1' = m1 /\ m2' = m2]_vars

\* an elimination or a QR iteration has changed its workspace, which no
\* longer equals the entries of the operand
C25_Witness ==
    /\ "A" \in DOMAIN wk
    /\ wk.A # m1.data
    /\ m1.rows = m1.cols /\ m1.rows >= 2

-----------------------------------------------------------------------------
\* the parent of eigen_qr_multiprocess has done both reads of the round and
\* the round's worker wrote Q and R in full and left with _exit(0)
PayloadReadFromHealthyWorker ==
    /\ InEigenStrategy /\ hpc = "multiproc" /\ spc = "wait"
    /\ procs[wk.iter].st = "exited0"

\* C26: the parent consumes the worker's complete payload before using it,
\* also when a read delivers fewer bytes than requested: after the reads of a
\* QR round whose worker wrote n*n doubles of Q and then n*n doubles of R,
\* the parent's Q and R hold exactly the values the worker wrote, in order.
C26_CompletePayloadConsumed ==
    PayloadReadFromHealthyWorker =>
        /\ wk.Q = qr_decompose_single(procs[wk.iter].A, wk.n).Q
        /\ wk.R = qr_decompose_single(procs[wk.iter].A, wk.n).R

\* the same when each read found the whole of its buffer in the pipe: nothing
\* the worker wrote is left unread
C26_WhenNothingLeftUnread ==
    (PayloadReadFromHealthyWorker /\ chan[wk.iter] = <<>>) =>
        /\ wk.Q = qr_decompose_single(procs[wk.iter].A, wk.n).Q
        /\ wk.R = qr_decompose_single(procs[wk.iter].A, wk.n).R

-----------------------------------------------------------------------------
\* determinant_multiprocess is inside its elimination loop
InMultiprocessElimination == InDetStrategy /\ hpc = "multiproc" /\ "A" \in DOMAIN wk

\* A with every row other than i and k cleared
OnlyRows(A, n, i, k) ==
    [r \in 0..(n - 1) |-> [j \in 0..(n - 1) |-> IF r \in {i, k} THEN A[r][j] ELSE D(0)]]

\* the workers of one step were forked with the same workspace, the parent
\* writes no cell of it while it forks them, the segment of a worker depends
\* on its own row and the pivot row only, and these two rows are in the
\* parent's workspace as the worker saw them until its segment is read
WorkersShareWorkspace ==
    InMultiprocessElimination =>
        /\ \A u, v \in DOMAIN procs : u[1] = v[1] => procs[u].A = procs[v].A
        /\ spc \in {"pipe", "fork"} =>
               \A u \in DOMAIN procs : u[1] = wk.k => procs[u].A = wk.A
        /\ \A u \in DOMAIN procs :
               /\ RowSegment(procs[u].A, wk.n, procs[u].k, procs[u].i)
                     = RowSegment(OnlyRows(procs[u].A, wk.n, procs[u].i, procs[u].k),
                                  wk.n, procs[u].k, procs[u].i)
               /\ pipes[u].r =>
                     /\ wk.A[procs[u].i] = procs[u].A[procs[u].i]
                     /\ wk.A[procs[u].k] = procs[u].A[procs[u].k]

\* the parent has just stored a segment: the step from "collect" to "wait"
SegmentStored == InMultiprocessElimination /\ spc = "collect" /\ spc' = "wait"

\* the step leaves every cell outside row i, columns k .. n-1 as it was
OnlyOwnSegmentChanged ==
    \A r \in 0..(wk.n - 1) : \A j \in 0..(wk.n - 1) :
        (r # wk.k + 1 + wk.idx \/ j < wk.k) => wk'.A[r][j] = wk.A[r][j]

\* the parent's steps while it creates the pipes and workers of a step leave
\* the workspace as the swap left it
ForkingKeepsWorkspace ==
    (InMultiprocessElimination /\ spc \in {"pipe", "fork"} /\ "A" \in DOMAIN wk') => wk'.A = wk.A

\* C27: in determinant_multiprocess all workers of a step compute from the
\* same workspace, the one right after the step's row swap; each worker reads
\* only its own row i and the pivot row k; the segment written back for worker
\* i changes only row i, columns k .. n-1, and sets column k to 0; so no
\* worker's input is affected by another worker's output.
C27_WorkersIsolated ==
    [][/\ WorkersShareWorkspace
       /\ ForkingKeepsWorkspace
       /\ SegmentStored => (OnlyOwnSegmentChanged /\ wk'.A[wk.k + 1 + wk.idx][wk.k] = D(0))]_vars

\* the same without the zero in column k, which a worker that ended without
\* writing does not deliver
C27_IsolatedExceptColumnK ==
    [][/\ WorkersShareWorkspace
       /\ ForkingKeepsWorkspace
       /\ SegmentStored => OnlyOwnSegmentChanged]_vars

\* column k is set to 0 whenever the worker wrote its segment
C27_ColumnKZeroWhenWritten ==
    [][(SegmentStored /\ procs[<<wk.k, wk.idx>>].st \in {"wrote", "exited0"})
          => wk'.A[wk.k + 1 + wk.idx][wk.k] = D(0)]_vars

-----------------------------------------------------------------------------
\* the parent is about to read the channel of worker u, or is waiting for u
ReadingFrom(u) ==
    \/ /\ InArith /\ hpc = "multiproc" /\ spc \in {"collect", "wait"} /\ u = wk.elem_idx
    \/ /\ InDetStrategy /\ hpc = "multiproc" /\ spc \in {"collect", "wait"} /\ u = <<wk.k, wk.idx>>
    \/ /\ InEigenStrategy /\ hpc = "multiproc" /\ spc \in {"readQ", "readR", "wait"} /\ u = wk.iter

\* the parent has closed its write end of u's channel and no other worker
\* inherited one
OnlyOwnWorkerHoldsWriteEnd(u) ==
    /\ ~pipes[u].w
    /\ \A v \in DOMAIN procs : u \in procs[v].wends => v = u

\* C28: every process-isolated function terminates, provided every forked
\* worker eventually writes its payload or exits: when the parent reads a
\* channel only the worker created for it can still hold its write end, so
\* each read returns data or end-of-file and each waitpid returns; a
\* process-isolated function that was entered is eventually left.
C28_ParentNeverBlocksForever ==
    /\ [](\A u \in DOMAIN procs : ReadingFrom(u) => OnlyOwnWorkerHoldsWriteEnd(u))
    /\ (hpc = "multiproc") ~> (hpc # "multiproc")

\* the parent got end-of-file from a worker that ended without writing, and
\* has reaped it
C28_Witness ==
    /\ hpc = "multiproc" /\ spc \in {"collect", "loop"}
    /\ \E u \in DOMAIN procs :
         /\ procs[u].st = "killed" /\ procs[u].waited
         /\ chan[u] = <<>> /\ ~pipes[u].r

-----------------------------------------------------------------------------
\* run_operation_comparison or run_eigen_comparison has returned
ComparisonReturned == (InArith \/ InEigen) /\ hpc = "done"

StrategyResults == {"single", "openmp", "multiproc"}

\* C29: after run_operation_comparison or run_eigen_comparison returns,
\* every strategy result that was produced and is not the returned one has
\* been freed, nothing else has, and the returned result has not been freed;
\* a matrix returned by run_operation_comparison carries the requested name
\* and not the temporary name of its strategy. (The requested name of the
\* model is shorter than MAX_NAME_LENGTH, so the copy does not cut it.)
C29_OthersFreedReturnedKept ==
    ComparisonReturned =>
        IF "fastest" \in DOMAIN wk
        THEN /\ freed = {s \in StrategyResults : res[s] # NULL /\ s # wk.fastest}
             /\ ret = (IF InArith THEN Renamed(res[wk.fastest])
                                  ELSE res[wk.fastest])
             /\ (InArith /\ ret # NULL) =>
                    /\ ret.name = "R"
                    /\ ret.name \notin {TempName(s) : s \in StrategyResults}
                    /\ [ret EXCEPT !.name = TempName(wk.fastest)]
                           = res[wk.fastest]
        ELSE \* the inputs were rejected before any strategy ran
             /\ freed = {}
             /\ ret = NULL
             /\ \A s \in StrategyResults : res[s] = NULL

\* run_operation_comparison returned the result of one strategy and freed the
\* results of the other two
C29_Witness ==
    /\ InArith /\ hpc = "done"
    /\ ret # NULL
    /\ Cardinality(freed) = 2

-----------------------------------------------------------------------------
InCollection == entry = "MatrixCollection"

\* the stored matrices, first to last: items[0 .. count-1]
Stored(c) == [i \in 1..c.count |-> c.items[i - 1]]

\* the sequence s without its i-th element
Without(s, i) == [j \in 1..(Len(s) - 1) |-> IF j < i THEN s[j] ELSE s[j + 1]]

NoTwoStoredShareAName ==
    \A i, j \in 0..(col.count - 1) :
        col.items[i].name = col.items[j].name => i = j

CollectionWellFormed ==
    /\ 0 <= col.count /\ col.count <= col.capacity
    /\ DOMAIN col.items = 0..(col.capacity - 1)
    /\ \A i \in 0..(col.count - 1) : "name" \in DOMAIN col.items[i]
    /\ NoTwoStoredShareAName

\* the call that has just returned was add_matrix of a matrix whose name was
\* already stored
AddedPresentName ==
    /\ wk'.fn = "add_matrix" /\ wk'.arg # NULL
    /\ find_matrix(col, Str(wk'.arg.name)) # NULL

RemovedPresentName ==
    /\ wk'.fn = "remove_matrix" /\ wk'.arg # NULL
    /\ find_matrix(col, wk'.arg) # NULL

RemovedAbsentName ==
    /\ wk'.fn = "remove_matrix" /\ wk'.arg # NULL
    /\ find_matrix(col, wk'.arg) = NULL

C30_Call ==
    InCollection =>
        /\ AddedPresentName => ret' = IntRet(0) /\ col' = col
        /\ RemovedPresentName =>
              /\ ret' = IntRet(1)
              /\ col'.count = col.count - 1
              /\ col'.capacity = col.capacity
              /\ \E i \in 1..col.count :
                    /\ Stored(col)[i] = find_matrix(col, wk'.arg)
                    /\ Stored(col') = Without(Stored(col), i)
              /\ find_matrix(col', wk'.arg) = NULL
        /\ RemovedAbsentName => ret' = IntRet(0) /\ col' = col

\* C30: after any sequence of add_matrix and remove_matrix calls no two
\* stored matrices have the same name and 0 <= count <= capacity; add_matrix
\* with a name already present returns 0 and leaves the collection
\* unchanged; remove_matrix of a present name removes exactly that matrix,
\* decrements count by one and keeps the order of the others, after which
\* find_matrix of that name returns NULL; remove_matrix of an absent name
\* returns 0 and changes nothing.
C30_CollectionKeepsUniqueNames == [](InCollection => CollectionWellFormed) /\ [][C30_Call]_vars

\* the collection has grown to twice its first capacity, holds more matrices
\* than the first capacity, at least one matrix has been removed and freed
\* before, and the last call, an add_matrix of a stored name, returned 0
C30_Witness ==
    /\ InCollection
    /\ col.capacity = 2 * INITIAL_CAPACITY
    /\ col.count > INITIAL_CAPACITY
    /\ freed # {}
    /\ wk.fn = "add_matrix" /\ wk.arg # NULL
    /\ find_matrix(col, Str(wk.arg.name)) # NULL
    /\ find_matrix(col, Str(wk.arg.name)) # wk.arg
    /\ ret = IntRet(0)

====
